---- MODULE Spec2Model ----
(***************************************************************************)
(* A model of dragonfly's Room2D (src/dragonfly/room2d.py): the floor      *)
(* polygon with its four per-segment arrays, the per-segment setters, the  *)
(* geometry edits that re-distribute the arrays, and the adjacency         *)
(* resolver (set_adjacency, solve_adjacency, patch_missing_adjacencies).   *)
(*                                                                         *)
(* Points are pairs of integers <<x, y>>; a segment is a pair of points.   *)
(* Python lists are sequences; a Python index i is the sequence index      *)
(* i + 1.  All lengths are in units of the tolerance.                      *)
(***************************************************************************)
EXTENDS Integers, Sequences, FiniteSets, TLC

VARIABLES rooms, lastOp, ops

vars == <<rooms, lastOp, ops>>

\* The number of operations applied after construction.
MaxOps == 2

\* tolerance of solve_adjacency / remove_duplicate_vertices, the unit of length.
Tol == 1

(***************************************************************************)
(* Small utilities.                                                        *)
(***************************************************************************)
Abs(n) == IF n < 0 THEN -n ELSE n

Min2(a, b) == IF a < b THEN a ELSE b

SetMin(S) == CHOOSE m \in S : \A n \in S : m <= n

SetMax(S) == CHOOSE m \in S : \A n \in S : n <= m

Reverse(s) == [i \in 1..Len(s) |-> s[Len(s) + 1 - i]]

\* Python s[i] for a possibly negative index i.
PyAt(s, i) == IF i >= 0 THEN s[i + 1] ELSE s[Len(s) + i + 1]

PyInRange(s, i) == (-Len(s) <= i) /\ (i < Len(s))

\* Python s[-1] = v
SetLast(s, v) == [s EXCEPT ![Len(s)] = v]

\* Python s.pop(-1), the remaining list
ButLast(s) == SubSeq(s, 1, Len(s) - 1)

RECURSIVE Flatten(_)
Flatten(ss) == IF ss = <<>> THEN <<>> ELSE Head(ss) \o Flatten(Tail(ss))

\* zip(a, b) stops at the shorter list
ZipLen(a, b) == Min2(Len(a), Len(b))

\* integer square root: the length of an axis-aligned segment is exact
ISqrt(q) == CHOOSE n \in 0..q : n * n <= q /\ q < (n + 1) * (n + 1)

(***************************************************************************)
(* Geometry (ladybug_geometry as room2d.py uses it).                       *)
(***************************************************************************)
Sub(p, q) == <<p[1] - q[1], p[2] - q[2]>>

Dot(u, v) == u[1] * v[1] + u[2] * v[2]

Cross(u, v) == u[1] * v[2] - u[2] * v[1]

\* Point.is_equivalent(other, tolerance)
IsEquivalent(p, q, tol) == Abs(p[1] - q[1]) <= tol /\ Abs(p[2] - q[2]) <= tol

\* LineSegment.distance_to_point(p) <= tol, on integers: the closest point of
\* the segment is an end point or the foot of the perpendicular.
DistanceToPointLeq(seg, p, tol) ==
    LET a == seg[1]
        d == Sub(seg[2], seg[1])
        ap == Sub(p, seg[1])
        bp == Sub(p, seg[2])
        len2 == Dot(d, d)
        t == Dot(ap, d)
    IN  IF len2 = 0 \/ t <= 0 THEN Dot(ap, ap) <= tol * tol
        ELSE IF t >= len2 THEN Dot(bp, bp) <= tol * tol
        ELSE Cross(d, ap) * Cross(d, ap) <= tol * tol * len2

\* LineSegment.length
SegLength(seg) == ISqrt(Dot(Sub(seg[2], seg[1]), Sub(seg[2], seg[1])))

\* Polygon2D.segments / Face3D.boundary_segments of one ring
RingSegments(ring) ==
    [i \in 1..Len(ring) |-> <<ring[i], ring[(i % Len(ring)) + 1]>>]

\* twice the signed area of a ring: positive when counter-clockwise
SignedArea2(ring) ==
    LET F[i \in 0..Len(ring)] ==
            IF i = 0 THEN 0
            ELSE F[i - 1] + Cross(ring[i], ring[(i % Len(ring)) + 1])
    IN  F[Len(ring)]

\* Face3D.normal.z >= 0 for a horizontal face built from its vertices
IsUpward(boundary) == SignedArea2(boundary) >= 0

\* Point.reflect(normal, origin) for a unit normal along the X or the Y axis
ReflectPoint(p, plane) ==
    LET k == 2 * Dot(Sub(p, plane.o), plane.n)
    IN  <<p[1] - k * plane.n[1], p[2] - k * plane.n[2]>>

\* Polygon2D.overlapping_bounding_rect(polygon1, polygon2, tolerance)
Xs(ring) == {ring[i][1] : i \in 1..Len(ring)}

Ys(ring) == {ring[i][2] : i \in 1..Len(ring)}

OverlappingBoundingRect(p1, p2, tol) ==
    LET xgap == IF SetMin(Xs(p1)) - SetMax(Xs(p2)) > SetMin(Xs(p2)) - SetMax(Xs(p1))
                THEN SetMin(Xs(p1)) - SetMax(Xs(p2))
                ELSE SetMin(Xs(p2)) - SetMax(Xs(p1))
        ygap == IF SetMin(Ys(p1)) - SetMax(Ys(p2)) > SetMin(Ys(p2)) - SetMax(Ys(p1))
                THEN SetMin(Ys(p1)) - SetMax(Ys(p2))
                ELSE SetMin(Ys(p2)) - SetMax(Ys(p1))
    IN  ~(xgap > tol \/ ygap > tol)

(***************************************************************************)
(* Boundary conditions (honeybee.boundarycondition).  A Surface holds the  *)
(* identifier of the adjacent face, '<room>..Face<n>', and of its room.    *)
(***************************************************************************)
NoFace == <<"", 0>>

Outdoors == [type |-> "Outdoors", face |-> NoFace, room |-> ""]

Ground == [type |-> "Ground", face |-> NoFace, room |-> ""]

\* '{}..Face{}'.format(identifier, seg_index + 1)
FaceId(identifier, seg_index) == <<identifier, seg_index + 1>>

\* int(face_id.split('..Face')[-1]) - 1
FaceIndex(face) == face[2] - 1

\* Surface(ids) with ids = (face identifier, room identifier)
Surface(face, room) == [type |-> "Surface", face |-> face, room |-> room]

IsSurface(bc) == bc.type = "Surface"

\* isinstance(bc, (Outdoors, Surface))
AcceptsWindow(bc) == bc.type \in {"Outdoors", "Surface"}

(***************************************************************************)
(* Window and shading parameters (dragonfly.windowparameter): opaque       *)
(* values with an area function, flip, split and merge.                    *)
(*   SimpleWindowRatio: w is the ratio in percent.                         *)
(*   RectangularWindows: one window of width w and height h whose origin   *)
(*   is x along the segment, at the floor.                                 *)
(***************************************************************************)
NoWin == [kind |-> "None", x |-> 0, w |-> 0, h |-> 0]

SimpleWindowRatio(r) == [kind |-> "SimpleWindowRatio", x |-> 0, w |-> r, h |-> 0]

RectangularWindows(x, w, h) == [kind |-> "RectangularWindows", x |-> x, w |-> w, h |-> h]

\* isinstance(wp, _AsymmetricBase)
IsAsymmetric(wp) == wp.kind \in {"RectangularWindows", "DetailedWindows"}

\* wp.area_from_segment(segment, floor_to_ceiling_height), in hundredths
AreaFromSegment(wp, seg, height) ==
    IF wp.kind = "None" THEN 0
    ELSE IF wp.kind = "SimpleWindowRatio" THEN SegLength(seg) * height * wp.w
    ELSE LET fw == IF wp.w + wp.x > SegLength(seg) THEN SegLength(seg) - wp.x ELSE wp.w
             fh == IF wp.h > height THEN height ELSE wp.h
         IN  IF fw > 0 /\ fh > 0 THEN 100 * fw * fh ELSE 0

\* wp.flip(seg_length)
FlipWin(wp, seg_length) == [wp EXCEPT !.x = seg_length - wp.x - wp.w]

\* wp.flip(seg_length) if isinstance(wp, _AsymmetricBase) else wp
FlipIfAsymmetric(wp, seg_length) ==
    IF IsAsymmetric(wp) THEN FlipWin(wp, seg_length) ELSE wp

\* wp.split((seg_a, seg_b), tolerance): a ratio applies to both parts, a
\* window with an origin goes to the part its origin lies on.
SplitWin(wp, seg_a, seg_b) ==
    IF ~IsAsymmetric(wp) THEN <<wp, wp>>
    ELSE IF wp.x < SegLength(seg_a) THEN <<wp, NoWin>>
    ELSE <<NoWin, [wp EXCEPT !.x = wp.x - SegLength(seg_a)]>>

\* DetailedWindows.merge((wp_a, wp_b), (seg_a, seg_b), floor_to_ceiling_height)
MergeWin(wp_a, wp_b, seg_a, seg_b, height) ==
    IF wp_a = NoWin /\ wp_b = NoWin THEN NoWin
    ELSE [kind |-> "DetailedWindows",
          x |-> IF wp_a # NoWin THEN wp_a.x ELSE SegLength(seg_a) + wp_b.x,
          w |-> wp_a.w + wp_b.w,
          h |-> IF wp_a.h > wp_b.h THEN wp_a.h ELSE wp_b.h]

NoShd == "None"


(***************************************************************************)
(* The Room2D object: __slots__ of the class, without the leading "_".     *)
(* air_boundaries is AbNone until it is first used.                        *)
(***************************************************************************)
AbNone == <<>>

\* an argument that is None where a list is expected
NoneList == <<>>

\* Room2D.floor_segments / floor_segments_2d: the boundary, then every hole
FloorSegments(room) ==
    RingSegments(room.boundary)
        \o Flatten([h \in 1..Len(room.holes) |-> RingSegments(room.holes[h])])

\* the number of segments of the floor polygon
GeometrySegmentCount(room) == Len(FloorSegments(room))

\* Room2D.ceiling_height
CeilingHeight(room) == room.floor_height + room.floor_to_ceiling_height

\* Room2D.air_boundaries (getter): all False when it was never set
AirBoundaries(room) ==
    IF room.air_boundaries = AbNone
    THEN [i \in 1..room.segment_count |-> FALSE]
    ELSE room.air_boundaries

\* the getter stores the list it generates
WithAirBoundaries(room) == [room EXCEPT !.air_boundaries = AirBoundaries(room)]

\* the outcome of a method: the room as the method leaves it, and the exception
Ok(room) == [room |-> room, raised |-> ""]

Raise(room, err) == [room |-> room, raised |-> err]

\* Room2D._check_wall_assigned_object: len(value) == len(self)
CheckWallAssignedObject(room, value) == Len(value) = room.segment_count

\* Face3D.flip(): every ring reversed
FlipRing(ring) == Reverse(ring)

\* Room2D._flip_wall_assigned_objects(original_geo, bcs, win_pars, shd_pars)
FlipWallAssignedObjects(boundary, has_holes, bcs, win_pars, shd_pars) ==
    LET n == Len(boundary)
        segs == RingSegments(boundary)
        fl_win == [i \in 1..n |-> FlipIfAsymmetric(win_pars[i], SegLength(segs[i]))]
        Rest(s) == IF has_holes THEN SubSeq(s, n + 1, Len(s)) ELSE <<>>
    IN  [bcs |-> Reverse(SubSeq(bcs, 1, n)) \o Rest(bcs),
         win |-> Reverse(fl_win) \o Rest(win_pars),
         shd |-> Reverse(SubSeq(shd_pars, 1, n)) \o Rest(shd_pars)]

\* Room2D.__init__ with explicit boundary_conditions (NoneList: the default),
\* window_parameters and shading_parameters (NoneList: none).
DefaultBCsCeilingAtGrade(n, floor_height, ftc) ==
    [i \in 1..n |-> IF floor_height + ftc >= 0 THEN Outdoors ELSE Ground]

DefaultBCs(n, floor_height, ftc) ==
    [i \in 1..n |-> IF floor_height + ftc > 0 THEN Outdoors ELSE Ground]

CanConstruct(boundary, holes, bcs, wps, shds) ==
    LET n == Len(boundary) + Len(Flatten(holes))
    IN  /\ bcs = NoneList \/ Len(bcs) = n
        /\ wps = NoneList \/ Len(wps) = n
        /\ shds = NoneList \/ Len(shds) = n
        /\ wps # NoneList =>
             \A i \in 1..n : wps[i] # NoWin =>
                AcceptsWindow(IF bcs = NoneList THEN Outdoors ELSE bcs[i])

NewRoom(identifier, boundary, holes, floor_height, ftc, bcs, wps, shds) ==
    LET up == IsUpward(boundary)
        geo_b == IF up THEN boundary ELSE FlipRing(boundary)
        geo_h == IF up THEN holes ELSE [h \in 1..Len(holes) |-> FlipRing(holes[h])]
        n == Len(boundary) + Len(Flatten(holes))
        bc0 == IF bcs = NoneList THEN DefaultBCs(n, floor_height, ftc) ELSE bcs
        wp0 == IF wps = NoneList THEN [i \in 1..n |-> NoWin] ELSE wps
        sh0 == IF shds = NoneList THEN [i \in 1..n |-> NoShd] ELSE shds
        fl == FlipWallAssignedObjects(boundary, holes # <<>>, bc0, wp0, sh0)
    IN  [identifier |-> identifier,
         boundary |-> geo_b,
         holes |-> geo_h,
         segment_count |-> n,
         floor_height |-> floor_height,
         floor_to_ceiling_height |-> ftc,
         boundary_conditions |-> IF up THEN bc0 ELSE fl.bcs,
         window_parameters |-> IF up THEN wp0 ELSE fl.win,
         shading_parameters |-> IF up THEN sh0 ELSE fl.shd,
         has_floor |-> TRUE,
         has_ceiling |-> TRUE,
         ceiling_plenum_depth |-> 0,
         floor_plenum_depth |-> 0,
         air_boundaries |-> AbNone]

(***************************************************************************)
(* The property setters and the per-segment setters.                       *)
(***************************************************************************)
\* Room2D.boundary_conditions (setter)
SetBoundaryConditions(room, value) ==
    IF ~CheckWallAssignedObject(room, value) THEN Raise(room, "AssertionError")
    ELSE IF \E i \in 1..ZipLen(value, room.window_parameters) :
                room.window_parameters[i] # NoWin /\ ~AcceptsWindow(value[i])
    THEN Raise(room, "AssertionError")
    ELSE Ok([room EXCEPT !.boundary_conditions = value])

\* Room2D.window_parameters (setter)
SetWindowParameters(room, value) ==
    IF value = NoneList
    THEN Ok([room EXCEPT !.window_parameters = [i \in 1..room.segment_count |-> NoWin]])
    ELSE IF ~CheckWallAssignedObject(room, value) THEN Raise(room, "AssertionError")
    ELSE IF \E i \in 1..ZipLen(value, room.boundary_conditions) :
                value[i] # NoWin /\ ~AcceptsWindow(room.boundary_conditions[i])
    THEN Raise(room, "AssertionError")
    ELSE Ok([room EXCEPT !.window_parameters = value])

\* Room2D.shading_parameters (setter)
SetShadingParameters(room, value) ==
    IF value = NoneList
    THEN Ok([room EXCEPT !.shading_parameters = [i \in 1..room.segment_count |-> NoShd]])
    ELSE IF ~CheckWallAssignedObject(room, value) THEN Raise(room, "AssertionError")
    ELSE Ok([room EXCEPT !.shading_parameters = value])

\* Room2D.air_boundaries (setter)
SetAirBoundaries(room, value) ==
    IF value = NoneList THEN Ok([room EXCEPT !.air_boundaries = AbNone])
    ELSE IF ~CheckWallAssignedObject(room, value) THEN Raise(room, "AssertionError")
    ELSE IF \E i \in 1..Min2(ZipLen(value, room.boundary_conditions),
                             Len(room.window_parameters)) :
                value[i] /\ (~IsSurface(room.boundary_conditions[i])
                             \/ room.window_parameters[i] # NoWin)
    THEN Raise(room, "AssertionError")
    ELSE Ok([room EXCEPT !.air_boundaries = value])

\* Room2D.set_boundary_condition(seg_index, boundary_condition)
SetBoundaryCondition(room, seg_index, bc) ==
    IF ~PyInRange(room.window_parameters, seg_index) THEN Raise(room, "IndexError")
    ELSE IF PyAt(room.window_parameters, seg_index) # NoWin /\ ~AcceptsWindow(bc)
    THEN Raise(room, "AssertionError")
    ELSE IF ~PyInRange(room.boundary_conditions, seg_index) THEN Raise(room, "IndexError")
    ELSE Ok([room EXCEPT !.boundary_conditions[seg_index + 1] = bc])

\* Room2D.set_air_boundary(seg_index)
SetAirBoundary(room, seg_index) ==
    LET r1 == WithAirBoundaries(room)
    IN  IF ~PyInRange(r1.window_parameters, seg_index) THEN Raise(r1, "IndexError")
        ELSE IF PyAt(r1.window_parameters, seg_index) # NoWin
        THEN Raise(r1, "AssertionError")
        ELSE IF ~PyInRange(r1.boundary_conditions, seg_index) THEN Raise(r1, "IndexError")
        ELSE IF ~IsSurface(PyAt(r1.boundary_conditions, seg_index))
        THEN Raise(r1, "AssertionError")
        ELSE IF ~PyInRange(r1.air_boundaries, seg_index) THEN Raise(r1, "IndexError")
        ELSE Ok([r1 EXCEPT !.air_boundaries[seg_index + 1] = TRUE])

\* Room2D.set_window_parameter(seg_index, window_parameter)
SetWindowParameter(room, seg_index, wp) ==
    IF wp # NoWin /\ ~PyInRange(room.boundary_conditions, seg_index)
    THEN Raise(room, "IndexError")
    ELSE IF wp # NoWin /\ ~AcceptsWindow(PyAt(room.boundary_conditions, seg_index))
    THEN Raise(room, "AssertionError")
    ELSE IF ~PyInRange(room.window_parameters, seg_index) THEN Raise(room, "IndexError")
    ELSE Ok([room EXCEPT !.window_parameters[seg_index + 1] = wp])

\* Room2D.reset_adjacency()
ResetAdjacency(room) ==
    Ok([room EXCEPT !.boundary_conditions =
            [i \in 1..Len(room.boundary_conditions) |->
                IF IsSurface(room.boundary_conditions[i]) THEN Outdoors
                ELSE room.boundary_conditions[i]]])


(***************************************************************************)
(* Geometry edits that carry the per-segment arrays along.                 *)
(***************************************************************************)
\* Room2D.reflect(plane): the mirrored floor faces down, so the wall-assigned
\* objects and the floor geometry are flipped.
Reflect(room, plane) ==
    LET rb == [i \in 1..Len(room.boundary) |-> ReflectPoint(room.boundary[i], plane)]
        rh == [h \in 1..Len(room.holes) |->
                 [i \in 1..Len(room.holes[h]) |-> ReflectPoint(room.holes[h][i], plane)]]
        fl == FlipWallAssignedObjects(rb, rh # <<>>, room.boundary_conditions,
                                      room.window_parameters, room.shading_parameters)
    IN  IF SignedArea2(rb) < 0
        THEN IF Len(room.boundary_conditions) < Len(rb)
                \/ Len(room.window_parameters) < Len(rb)
                \/ Len(room.shading_parameters) < Len(rb)
             THEN Raise([room EXCEPT !.boundary = rb, !.holes = rh], "IndexError")
             ELSE Ok([room EXCEPT
                        !.boundary = FlipRing(rb),
                        !.holes = [h \in 1..Len(rh) |-> FlipRing(rh[h])],
                        !.boundary_conditions = fl.bcs,
                        !.window_parameters = fl.win,
                        !.shading_parameters = fl.shd])
        ELSE Ok([room EXCEPT !.boundary = rb, !.holes = rh])

\* the Python indices i of one ring whose vertex i + 1 is not a duplicate of
\* vertex i, in order (remove_duplicate_vertices, the loop over b_pts)
KeptIndices(ring, tol) ==
    SelectSeq([i \in 1..Len(ring) |-> i - 1],
              LAMBDA i : ~IsEquivalent(ring[((i + 1) % Len(ring)) + 1], ring[i + 1], tol))

\* the start index of hole h in the per-segment arrays (seg_count)
HoleOffset(room, h) ==
    Len(room.boundary) + Len(Flatten(SubSeq(room.holes, 1, h - 1)))

\* Room2D.remove_duplicate_vertices(tolerance)
RemoveDuplicateVertices(room, tol) ==
    LET r1 == WithAirBoundaries(room)
        exist_abs == r1.air_boundaries
        kb == KeptIndices(r1.boundary, tol)
        kh == [h \in 1..Len(r1.holes) |-> KeptIndices(r1.holes[h], tol)]
        \* the indices read from the three lists, and from exist_abs
        idx == kb \o Flatten([h \in 1..Len(kh) |->
                   [k \in 1..Len(kh[h]) |-> HoleOffset(r1, h) + kh[h][k]]])
        abs_idx == kb \o Flatten(kh)
        new_bound == [k \in 1..Len(kb) |-> r1.boundary[kb[k] + 1]]
        new_holes == [h \in 1..Len(kh) |->
                        [k \in 1..Len(kh[h]) |-> r1.holes[h][kh[h][k] + 1]]]
    IN  IF \/ \E k \in 1..Len(idx) :
                 \/ ~PyInRange(r1.boundary_conditions, idx[k])
                 \/ ~PyInRange(r1.window_parameters, idx[k])
                 \/ ~PyInRange(r1.shading_parameters, idx[k])
           \/ \E k \in 1..Len(abs_idx) : ~PyInRange(exist_abs, abs_idx[k])
        THEN Raise(r1, "IndexError")
        ELSE IF Len(new_bound) < 3 \/ \E h \in 1..Len(new_holes) : Len(new_holes[h]) < 3
        THEN Raise(r1, "ValueError")
        ELSE Ok([r1 EXCEPT
                   !.boundary = new_bound,
                   !.holes = new_holes,
                   !.segment_count = Len(idx),
                   !.boundary_conditions = [k \in 1..Len(idx) |-> PyAt(r1.boundary_conditions, idx[k])],
                   !.window_parameters = [k \in 1..Len(idx) |-> PyAt(r1.window_parameters, idx[k])],
                   !.shading_parameters = [k \in 1..Len(idx) |-> PyAt(r1.shading_parameters, idx[k])],
                   !.air_boundaries = [k \in 1..Len(abs_idx) |-> PyAt(exist_abs, abs_idx[k])]])

\* One letter of the edit_code of update_floor_geometry.  st holds the lists
\* being built, last_o_seg, orig_i, new_i and the exception raised so far.
UpdateStep(room, orig_segs, new_segs, tol, st, edit_val) ==
    LET obc == room.boundary_conditions
        owp == room.window_parameters
        osh == room.shading_parameters
    IN
    IF st.err # "" THEN st
    ELSE IF edit_val = "K" THEN
        IF ~PyInRange(obc, st.orig_i) \/ ~PyInRange(owp, st.orig_i)
           \/ ~PyInRange(osh, st.orig_i) \/ ~PyInRange(orig_segs, st.orig_i)
        THEN [st EXCEPT !.err = "IndexError"]
        ELSE [st EXCEPT !.bcs = Append(@, PyAt(obc, st.orig_i)),
                        !.win = Append(@, PyAt(owp, st.orig_i)),
                        !.shd = Append(@, PyAt(osh, st.orig_i)),
                        !.last_o_seg = PyAt(orig_segs, st.orig_i),
                        !.orig_i = @ + 1,
                        !.new_i = @ + 1]
    ELSE IF edit_val = "X" THEN
        IF ~PyInRange(orig_segs, st.orig_i) THEN [st EXCEPT !.err = "IndexError"]
        ELSE LET del_seg == PyAt(orig_segs, st.orig_i)
                 full_line == <<st.last_o_seg[1], del_seg[2]>>
             IN  IF DistanceToPointLeq(full_line, del_seg[1], tol)
                 THEN IF Len(st.bcs) # 0
                      THEN IF ~PyInRange(owp, st.orig_i)
                           THEN [st EXCEPT !.err = "IndexError"]
                           ELSE [st EXCEPT
                                   !.bcs = SetLast(@, Outdoors),
                                   !.win = SetLast(@, MergeWin(st.win[Len(st.win)],
                                                PyAt(owp, st.orig_i), st.last_o_seg,
                                                del_seg, room.floor_to_ceiling_height)),
                                   !.last_o_seg = full_line,
                                   !.orig_i = @ + 1]
                      ELSE [st EXCEPT !.last_o_seg = full_line, !.orig_i = @ + 1]
                 ELSE [st EXCEPT !.orig_i = @ + 1]
    ELSE IF edit_val = "A" THEN
        IF ~PyInRange(new_segs, st.new_i) THEN [st EXCEPT !.err = "IndexError"]
        ELSE LET add_seg == PyAt(new_segs, st.new_i)
                 oi == IF st.orig_i >= Len(obc) - 1 THEN -1 ELSE st.orig_i
                 p_lin == <<st.last_o_seg[1], add_seg[1]>>
                 a_lin == <<add_seg[1], st.last_o_seg[2]>>
             IN  IF DistanceToPointLeq(st.last_o_seg, add_seg[1], tol)
                    /\ DistanceToPointLeq(st.last_o_seg, add_seg[2], tol)
                 THEN IF ~PyInRange(obc, oi) \/ ~PyInRange(osh, oi)
                      THEN [st EXCEPT !.err = "IndexError"]
                      ELSE IF Len(st.win) # 0 /\ st.win[Len(st.win)] # NoWin
                      THEN [st EXCEPT
                              !.bcs = Append(@, PyAt(obc, oi)),
                              !.win = ButLast(@) \o SplitWin(st.win[Len(st.win)], p_lin, a_lin),
                              !.shd = Append(@, PyAt(osh, oi)),
                              !.last_o_seg = a_lin,
                              !.orig_i = oi,
                              !.new_i = @ + 1]
                      ELSE [st EXCEPT
                              !.bcs = Append(@, PyAt(obc, oi)),
                              !.win = Append(@, NoWin),
                              !.shd = Append(@, PyAt(osh, oi)),
                              !.orig_i = oi,
                              !.new_i = @ + 1]
                 ELSE [st EXCEPT !.bcs = Append(@, Outdoors),
                                 !.win = Append(@, NoWin),
                                 !.shd = Append(@, NoShd),
                                 !.new_i = @ + 1]
    ELSE st

RECURSIVE UpdateLoop(_, _, _, _, _, _)
UpdateLoop(room, orig_segs, new_segs, tol, st, edit_code) ==
    IF edit_code = <<>> THEN st
    ELSE UpdateLoop(room, orig_segs, new_segs, tol,
                    UpdateStep(room, orig_segs, new_segs, tol, st, Head(edit_code)),
                    Tail(edit_code))

\* Room2D.update_floor_geometry(new_floor_geometry, edit_code, tolerance),
\* the new floor geometry given as its boundary and holes
UpdateFloorGeometry(room, new_boundary, new_holes, edit_code, tol) ==
    LET down == SignedArea2(new_boundary) <= 0
        nb == IF down THEN FlipRing(new_boundary) ELSE new_boundary
        nh == IF down THEN [h \in 1..Len(new_holes) |-> FlipRing(new_holes[h])]
              ELSE new_holes
        orig_segs == FloorSegments(room)
        new_segs == RingSegments(nb) \o Flatten([h \in 1..Len(nh) |-> RingSegments(nh[h])])
        st0 == [bcs |-> <<>>, win |-> <<>>, shd |-> <<>>,
                last_o_seg |-> orig_segs[Len(orig_segs)],
                orig_i |-> 0, new_i |-> 0, err |-> ""]
        st == UpdateLoop(room, orig_segs, new_segs, tol, st0, edit_code)
        moved == [room EXCEPT !.boundary = nb, !.holes = nh,
                              !.segment_count = Len(new_segs)]
    IN  IF st.err # "" THEN Raise(room, st.err)
        ELSE IF Len(new_segs) # Len(st.bcs) THEN Raise(moved, "AssertionError")
        ELSE Ok([moved EXCEPT !.boundary_conditions = st.bcs,
                              !.window_parameters = st.win,
                              !.shading_parameters = st.shd,
                              !.air_boundaries = AbNone])


(***************************************************************************)
(* The adjacency resolver.  rs maps a room identifier to its Room2D; a     *)
(* list of rooms is a sequence of identifiers.                             *)
(***************************************************************************)
\* a resolution that keeps the smaller window area
SmallerWindowWins(a1, a2) == a1 < a2

\* set_adjacency: "if a1 > a2", the first segment's windows win
FirstWindowWins(a1, a2) == a1 > a2

\* a conflict check that lets a segment without windows meet one with windows
WindowsConflictWhenBothSet(wp1, wp2) == wp1 # wp2 /\ wp1 # NoWin /\ wp2 # NoWin

\* set_adjacency without conflict resolution: "if wp1 != wp2: raise"
WindowsConflict(wp1, wp2) == wp1 # wp2

\* the outcome of an operation on several rooms
OkAll(rs) == [rooms |-> rs, raised |-> ""]

RaiseAll(rs, err) == [rooms |-> rs, raised |-> err]

\* room_1.set_adjacency(room_2, self_seg_index, other_seg_index,
\*                       resolve_window_conflicts) with room_1 = rs[id1]
SetAdjacency(rs, id1, id2, self_seg_index, other_seg_index, resolve_window_conflicts) ==
    LET j == self_seg_index
        k == other_seg_index
        ids_1 == <<FaceId(id1, j), id1>>
        ids_2 == <<FaceId(id2, k), id2>>
        rs1 == [rs EXCEPT ![id1].boundary_conditions[j + 1] = Surface(ids_2[1], ids_2[2])]
        rs2 == [rs1 EXCEPT ![id2].boundary_conditions[k + 1] = Surface(ids_1[1], ids_1[2])]
        wp1 == rs2[id1].window_parameters[j + 1]
        wp2 == rs2[id2].window_parameters[k + 1]
        min_ftc == Min2(rs2[id1].floor_to_ceiling_height, rs2[id2].floor_to_ceiling_height)
        seg1 == FloorSegments(rs2[id1])[j + 1]
        seg2 == FloorSegments(rs2[id2])[k + 1]
        a1 == IF wp1 # NoWin THEN AreaFromSegment(wp1, seg1, min_ftc) ELSE 0
        a2 == IF wp2 # NoWin THEN AreaFromSegment(wp2, seg2, min_ftc) ELSE 0
    IN  IF j < 0 \/ j >= Len(rs[id1].boundary_conditions) THEN RaiseAll(rs, "IndexError")
        ELSE IF k < 0 \/ k >= Len(rs[id2].boundary_conditions) THEN RaiseAll(rs1, "IndexError")
        ELSE IF j >= Len(rs[id1].window_parameters) \/ k >= Len(rs[id2].window_parameters)
        THEN RaiseAll(rs2, "IndexError")
        ELSE IF wp1 # NoWin \/ wp2 # NoWin
        THEN IF wp1 # wp2 \/ IsAsymmetric(wp1)
             THEN IF resolve_window_conflicts
                  THEN IF FirstWindowWins(a1, a2)
                       THEN OkAll([rs2 EXCEPT ![id2].window_parameters[k + 1] =
                                      FlipIfAsymmetric(wp1, SegLength(seg2))])
                       ELSE OkAll([rs2 EXCEPT ![id1].window_parameters[j + 1] =
                                      FlipIfAsymmetric(wp2, SegLength(seg1))])
                  ELSE IF WindowsConflict(wp1, wp2)
                       THEN RaiseAll(rs2, "AssertionError")
                       ELSE OkAll(rs2)
             ELSE OkAll(rs2)
        ELSE OkAll(rs2)

\* solve_adjacency, first loop: remove_duplicate_vertices on every room, a
\* ValueError is passed over
RECURSIVE RemoveAllDuplicates(_, _, _)
RemoveAllDuplicates(rs, room_2ds, tol) ==
    IF room_2ds = <<>> THEN OkAll(rs)
    ELSE LET res == RemoveDuplicateVertices(rs[Head(room_2ds)], tol)
             rs1 == [rs EXCEPT ![Head(room_2ds)] = res.room]
         IN  IF res.raised \in {"", "ValueError"}
             THEN RemoveAllDuplicates(rs1, Tail(room_2ds), tol)
             ELSE RaiseAll(rs1, res.raised)

\* a match that tests the first end point of seg_2 only
MatchingSegmentsFirstPoint(rs, id1, id2, j, tol) ==
    LET seg_1 == FloorSegments(rs[id1])[j + 1]
        segs_2 == FloorSegments(rs[id2])
    IN  {k \in 0..(Len(segs_2) - 1) :
            /\ ~IsSurface(rs[id2].boundary_conditions[k + 1])
            /\ DistanceToPointLeq(seg_1, segs_2[k + 1][1], tol)}

\* the segments k of room_2 that segment j of room_1 can be matched with:
\* not yet a Surface, and both end points within the tolerance of seg_1
MatchingSegments(rs, id1, id2, j, tol) ==
    LET seg_1 == FloorSegments(rs[id1])[j + 1]
        segs_2 == FloorSegments(rs[id2])
    IN  {k \in 0..(Len(segs_2) - 1) :
            /\ ~IsSurface(rs[id2].boundary_conditions[k + 1])
            /\ DistanceToPointLeq(seg_1, segs_2[k + 1][1], tol)
            /\ DistanceToPointLeq(seg_1, segs_2[k + 1][2], tol)}

\* solve_adjacency: "for j, seg_1 in enumerate(room_1.floor_segments_2d)";
\* st holds the rooms, adj_info and the exception raised so far
RECURSIVE SolveSegments(_, _, _, _, _, _)
SolveSegments(st, id1, id2, j, tol, rwc) ==
    IF st.raised # "" \/ j >= GeometrySegmentCount(st.rooms[id1]) THEN st
    ELSE LET ks == MatchingSegments(st.rooms, id1, id2, j, tol)
             k == SetMin(ks)
             res == SetAdjacency(st.rooms, id1, id2, j, k, rwc)
         IN  IF ks = {} THEN SolveSegments(st, id1, id2, j + 1, tol, rwc)
             ELSE IF res.raised # ""
             THEN [st EXCEPT !.rooms = res.rooms, !.raised = res.raised]
             ELSE SolveSegments([st EXCEPT !.rooms = res.rooms,
                                           !.adj_info = Append(@, <<<<id1, j>>, <<id2, k>>>>)],
                                id1, id2, j + 1, tol, rwc)

\* solve_adjacency: "for room_2 in room_2ds[i + 1:]"
RECURSIVE SolveOthers(_, _, _, _, _)
SolveOthers(st, id1, others, tol, rwc) ==
    IF st.raised # "" \/ others = <<>> THEN st
    ELSE IF ~OverlappingBoundingRect(st.rooms[id1].boundary,
                                     st.rooms[Head(others)].boundary, tol)
    THEN SolveOthers(st, id1, Tail(others), tol, rwc)
    ELSE SolveOthers(SolveSegments(st, id1, Head(others), 0, tol, rwc),
                     id1, Tail(others), tol, rwc)

\* solve_adjacency: "for i, room_1 in enumerate(room_2ds)"
RECURSIVE SolveRooms(_, _, _, _)
SolveRooms(st, room_2ds, tol, rwc) ==
    IF st.raised # "" \/ room_2ds = <<>> THEN st
    ELSE SolveRooms(SolveOthers(st, Head(room_2ds), Tail(room_2ds), tol, rwc),
                    Tail(room_2ds), tol, rwc)

\* Room2D.solve_adjacency(room_2ds, tolerance, resolve_window_conflicts)
SolveAdjacency(rs, room_2ds, tol, resolve_window_conflicts) ==
    LET pre == RemoveAllDuplicates(rs, room_2ds, tol)
    IN  IF pre.raised # ""
        THEN [rooms |-> pre.rooms, adj_info |-> <<>>, raised |-> pre.raised]
        ELSE SolveRooms([rooms |-> pre.rooms, adj_info |-> <<>>, raised |-> ""],
                        room_2ds, tol, resolve_window_conflicts)

\* srf_bc_dict[key] = val: a dict keeps the position of a key it already has
DictSet(d, key, val) ==
    IF \E n \in 1..Len(d) : d[n].key = key
    THEN [n \in 1..Len(d) |-> IF d[n].key = key THEN [key |-> key, val |-> val] ELSE d[n]]
    ELSE Append(d, [key |-> key, val |-> val])

\* patch_missing_adjacencies, first loop: key (adjacent room, adjacent
\* segment index), val (room, segment index i)
RECURSIVE GatherSurfaces(_, _, _, _)
GatherSurfaces(rs, room_2ds, i, d) ==
    IF room_2ds = <<>> THEN d
    ELSE IF i >= Len(rs[Head(room_2ds)].boundary_conditions)
    THEN GatherSurfaces(rs, Tail(room_2ds), 0, d)
    ELSE LET bc == rs[Head(room_2ds)].boundary_conditions[i + 1]
         IN  IF IsSurface(bc)
             THEN GatherSurfaces(rs, room_2ds, i + 1,
                      DictSet(d, <<bc.room, FaceIndex(bc.face)>>, <<Head(room_2ds), i>>))
             ELSE GatherSurfaces(rs, room_2ds, i + 1, d)

\* patch_missing_adjacencies, second loop over srf_bc_dict.items()
RECURSIVE PatchEntries(_, _, _)
PatchEntries(rs, room_2ds, d) ==
    IF d = <<>> THEN rs
    ELSE LET key == Head(d).key
             val == Head(d).val
             patched == [rs EXCEPT ![val[1]].boundary_conditions[val[2] + 1] = Outdoors]
             found == \E n \in 1..Len(room_2ds) : room_2ds[n] = key[1]
             missing == \/ ~found
                        \/ ~PyInRange(rs[key[1]].boundary_conditions, key[2])
                        \/ ~IsSurface(PyAt(rs[key[1]].boundary_conditions, key[2]))
         IN  PatchEntries(IF missing THEN patched ELSE rs, room_2ds, Tail(d))

\* Room2D.patch_missing_adjacencies(room_2ds)
PatchMissingAdjacencies(rs, room_2ds) ==
    OkAll(PatchEntries(rs, room_2ds, GatherSurfaces(rs, room_2ds, 0, <<>>)))


(***************************************************************************)
(* One Room2D under its public mutating operations (SpecRoom).             *)
(***************************************************************************)
\* Floor plans: a square, the square with a doubled vertex, a square with a
\* triangular hole.
Square == <<<<0, 0>>, <<4, 0>>, <<4, 4>>, <<0, 4>>>>

SquareDoubled == <<<<0, 0>>, <<4, 0>>, <<4, 0>>, <<4, 4>>, <<0, 4>>>>

SquareSplit == <<<<0, 0>>, <<2, 0>>, <<4, 0>>, <<4, 4>>, <<0, 4>>>>

BigSquare == <<<<0, 0>>, <<8, 0>>, <<8, 8>>, <<0, 8>>>>

TriangleHole == <<<<2, 2>>, <<4, 6>>, <<6, 2>>>>

Layouts ==
    {[boundary |-> Square, holes |-> <<>>],
     [boundary |-> SquareDoubled, holes |-> <<>>],
     [boundary |-> BigSquare, holes |-> <<TriangleHole>>]}

\* a Surface condition towards a room that is not modelled
SurfaceElsewhere == Surface(FaceId("R9", 0), "R9")

Uniform(n, v) == [i \in 1..n |-> v]

\* one value at Python index seg, v elsewhere
OneAt(n, seg, one, v) == [i \in 1..n |-> IF i = seg + 1 THEN one ELSE v]

\* the lists handed to the constructor for a plan of n segments
InitBCs(n) ==
    {NoneList,
     [i \in 1..n |-> IF i = 2 THEN Ground ELSE IF i = 3 THEN SurfaceElsewhere ELSE Outdoors]}

InitWPs(n) == {NoneList, OneAt(n, 0, SimpleWindowRatio(40), NoWin)}

\* the segments the per-segment setters are applied to
Segs == {0, 2}

BCValues == {Outdoors, Ground, SurfaceElsewhere}

WPValues == {NoWin, SimpleWindowRatio(40)}

\* what an operation did: its name, its segment and the exception it raised
RoomOp(op, seg, raised) == [op |-> op, seg |-> seg, raised |-> raised]

Room == rooms["R1"]

InitRoom ==
    /\ \E lay \in Layouts :
         LET n == Len(lay.boundary) + Len(Flatten(lay.holes))
         IN  \E bc \in InitBCs(n), wp \in InitWPs(n) :
               /\ CanConstruct(lay.boundary, lay.holes, bc, wp, NoneList)
               /\ rooms = [id \in {"R1"} |->
                             NewRoom(id, lay.boundary, lay.holes, 0, 3, bc, wp, NoneList)]
    /\ lastOp = RoomOp("__init__", -1, "")
    /\ ops = 0

\* every operation leaves the room as the method left it, raised or not
Apply(op, seg, res) ==
    /\ ops < MaxOps
    /\ ops' = ops + 1
    /\ rooms' = [rooms EXCEPT !["R1"] = res.room]
    /\ lastOp' = RoomOp(op, seg, res.raised)

RoomSetBoundaryConditions ==
    \E bc \in BCValues, n \in {Room.segment_count, Room.segment_count - 1} :
        Apply("boundary_conditions", -1, SetBoundaryConditions(Room, Uniform(n, bc)))

RoomSetWindowParameters ==
    \E value \in {NoneList, Uniform(Room.segment_count, SimpleWindowRatio(40)),
                  Uniform(Room.segment_count + 1, NoWin)} :
        Apply("window_parameters", -1, SetWindowParameters(Room, value))

RoomSetShadingParameters ==
    \E value \in {NoneList, Uniform(Room.segment_count + 1, NoShd)} :
        Apply("shading_parameters", -1, SetShadingParameters(Room, value))

RoomSetAirBoundaries ==
    \E value \in {NoneList, Uniform(Room.segment_count, TRUE),
                  OneAt(Room.segment_count, 2, TRUE, FALSE),
                  Uniform(Room.segment_count - 1, FALSE)} :
        Apply("air_boundaries", -1, SetAirBoundaries(Room, value))

RoomSetBoundaryCondition ==
    \E seg \in Segs, bc \in BCValues :
        Apply("set_boundary_condition", seg, SetBoundaryCondition(Room, seg, bc))

RoomSetAirBoundary ==
    \E seg \in Segs : Apply("set_air_boundary", seg, SetAirBoundary(Room, seg))

RoomSetWindowParameter ==
    \E seg \in Segs, wp \in WPValues :
        Apply("set_window_parameter", seg, SetWindowParameter(Room, seg, wp))

RoomResetAdjacency == Apply("reset_adjacency", -1, ResetAdjacency(Room))

RoomReflect ==
    Apply("reflect", -1, Reflect(Room, [n |-> <<1, 0>>, o |-> <<0, 0>>]))

RoomRemoveDuplicateVertices ==
    Apply("remove_duplicate_vertices", -1, RemoveDuplicateVertices(Room, Tol))

\* the edited floor plans: a segment split in two, the same plan with an
\* edit code one letter short, the doubled vertex removed
RoomUpdateFloorGeometry ==
    \E edit \in {[boundary |-> SquareSplit, code |-> <<"K", "A", "K", "K", "K">>],
                 [boundary |-> SquareSplit, code |-> <<"K", "K", "K", "K">>],
                 [boundary |-> Square, code |-> <<"K", "X", "K", "K", "K">>]} :
        Apply("update_floor_geometry", -1,
              UpdateFloorGeometry(Room, edit.boundary, <<>>, edit.code, Tol))

NextRoom ==
    \/ RoomSetBoundaryConditions
    \/ RoomSetWindowParameters
    \/ RoomSetShadingParameters
    \/ RoomSetAirBoundaries
    \/ RoomSetBoundaryCondition
    \/ RoomSetAirBoundary
    \/ RoomSetWindowParameter
    \/ RoomResetAdjacency
    \/ RoomReflect
    \/ RoomRemoveDuplicateVertices
    \/ RoomUpdateFloorGeometry

SpecRoom == InitRoom /\ [][NextRoom]_vars


(***************************************************************************)
(* The cross-field invariants of one Room2D.                               *)
(***************************************************************************)
WindowsLegal(room) ==
    \A i \in 1..ZipLen(room.window_parameters, room.boundary_conditions) :
        room.window_parameters[i] # NoWin => AcceptsWindow(room.boundary_conditions[i])

AirBoundariesLegal(room) ==
    \A i \in 1..Len(AirBoundaries(room)) :
        AirBoundaries(room)[i] =>
            /\ i <= Len(room.boundary_conditions)
            /\ IsSurface(room.boundary_conditions[i])
            /\ i <= Len(room.window_parameters)
            /\ room.window_parameters[i] = NoWin

LengthsLegal(room) ==
    /\ Len(room.boundary_conditions) = room.segment_count
    /\ Len(room.window_parameters) = room.segment_count
    /\ Len(room.shading_parameters) = room.segment_count
    /\ Len(AirBoundaries(room)) = room.segment_count
    /\ room.segment_count = GeometrySegmentCount(room)

\* C5: in every reachable state of a Room2D, every segment with a window
\* parameter has an Outdoors or a Surface boundary condition.
C5_WindowOnlyOnOutdoorsOrSurface == WindowsLegal(Room)

\* C6: in every reachable state of a Room2D, every segment whose air boundary
\* flag is true has a Surface boundary condition and no window parameter.
C6_AirBoundaryOnlyOnBareSurface == AirBoundariesLegal(Room)

\* C7: after every mutating operation the four per-segment arrays have the
\* same length, which is segment_count and the number of segments of the
\* floor polygon (outer ring plus holes).
C7_ArraysMatchSegmentCount == LengthsLegal(Room)

PerSegmentSetters ==
    {"set_boundary_condition", "set_window_parameter", "set_air_boundary",
     "boundary_conditions", "window_parameters", "air_boundaries"}

\* C8: a per-segment setter or list setter that is applied to a room that
\* satisfies the three cross-field invariants raises whenever the assignment
\* would break one of them: if it returns, the room still satisfies them.
C8_SettersRejectIllegalAssignments ==
    [][(/\ lastOp'.op \in PerSegmentSetters
        /\ lastOp'.raised = ""
        /\ LengthsLegal(Room) /\ WindowsLegal(Room) /\ AirBoundariesLegal(Room))
       => (LengthsLegal(Room)' /\ WindowsLegal(Room)' /\ AirBoundariesLegal(Room)')]_vars


(***************************************************************************)
(* Three rooms under the adjacency resolver (SpecAdj).                     *)
(*   corridor: R1 is a corridor whose long wall (segment 2) runs along     *)
(*             the walls (segment 0) of R2 and R3, which share a wall.     *)
(*   notch:    R1 sits on R2, whose top wall is drawn as two colinear      *)
(*             segments (2 and 3); R3 stands apart.                        *)
(***************************************************************************)
RoomIds == {"R1", "R2", "R3"}

SceneBoundary(scene, id) ==
    IF scene = "corridor"
    THEN CASE id = "R1" -> <<<<0, 0>>, <<8, 0>>, <<8, 2>>, <<0, 2>>>>
           [] id = "R2" -> <<<<0, 2>>, <<4, 2>>, <<4, 6>>, <<0, 6>>>>
           [] id = "R3" -> <<<<4, 2>>, <<8, 2>>, <<8, 6>>, <<4, 6>>>>
    ELSE CASE id = "R1" -> <<<<0, 0>>, <<8, 0>>, <<8, 2>>, <<0, 2>>>>
           [] id = "R2" -> <<<<0, -4>>, <<8, -4>>, <<8, 0>>, <<4, 0>>, <<0, 0>>>>
           [] id = "R3" -> <<<<20, 20>>, <<24, 20>>, <<24, 24>>, <<20, 24>>>>

\* the segment of R1 and of R2 that carries the window parameters of a scene
WindowSegment(scene, id) ==
    IF scene = "corridor" THEN (IF id = "R1" THEN 2 ELSE 0)
    ELSE (IF id = "R1" THEN 0 ELSE 2)

AdjWindows == {NoWin, SimpleWindowRatio(20), RectangularWindows(1, 2, 2)}

\* the floor-to-ceiling heights of R1 and R2
AdjHeights == {<<3, 3>>, <<2, 3>>}

\* the lists of rooms handed to solve_adjacency and patch_missing_adjacencies
RoomLists ==
    {<<"R1", "R2", "R3">>, <<"R2", "R3", "R1">>,
     <<"R1", "R2">>, <<"R2", "R1">>, <<"R2", "R3">>}

\* what an operation did: its arguments, the window parameters wps that the
\* two segments of a set_adjacency carried when it was called, the pairs it
\* returned (adj_info) and the exception it raised
AdjOp(op, room_2ds, rwc, id1, j, id2, k, wps, adj_info, raised) ==
    [op |-> op, room_2ds |-> room_2ds, rwc |-> rwc, id1 |-> id1, j |-> j,
     id2 |-> id2, k |-> k, wps |-> wps, adj_info |-> adj_info, raised |-> raised]

NoWps == <<NoWin, NoWin>>

InitAdj ==
    /\ \E scene \in {"corridor", "notch"}, w1 \in AdjWindows, w2 \in AdjWindows,
          hs \in AdjHeights :
         rooms = [id \in RoomIds |->
                    LET b == SceneBoundary(scene, id)
                        wp == IF id = "R3" THEN NoneList
                              ELSE OneAt(Len(b), WindowSegment(scene, id),
                                         IF id = "R1" THEN w1 ELSE w2, NoWin)
                        ftc == IF id = "R1" THEN hs[1] ELSE IF id = "R2" THEN hs[2] ELSE 3
                    IN  NewRoom(id, b, <<>>, 10, ftc, NoneList, wp, NoneList)]
    /\ lastOp = AdjOp("__init__", <<>>, TRUE, "", -1, "", -1, NoWps, <<>>, "")
    /\ ops = 0

AdjSolveAdjacency ==
    \E room_2ds \in RoomLists, rwc \in BOOLEAN :
        LET res == SolveAdjacency(rooms, room_2ds, Tol, rwc)
        IN  /\ ops < MaxOps
            /\ ops' = ops + 1
            /\ rooms' = res.rooms
            /\ lastOp' = AdjOp("solve_adjacency", room_2ds, rwc, "", -1, "", -1, NoWps,
                               res.adj_info, res.raised)

\* set_adjacency between two segments that lie on one another
AdjSetAdjacency ==
    \E id1 \in RoomIds, id2 \in RoomIds, rwc \in BOOLEAN :
      \E j \in 0..(rooms[id1].segment_count - 1), k \in 0..(rooms[id2].segment_count - 1) :
        LET res == SetAdjacency(rooms, id1, id2, j, k, rwc)
            seg_1 == FloorSegments(rooms[id1])[j + 1]
            seg_2 == FloorSegments(rooms[id2])[k + 1]
        IN  /\ ops < MaxOps
            /\ id1 # id2
            /\ DistanceToPointLeq(seg_1, seg_2[1], Tol)
            /\ DistanceToPointLeq(seg_1, seg_2[2], Tol)
            /\ ops' = ops + 1
            /\ rooms' = res.rooms
            /\ lastOp' = AdjOp("set_adjacency", <<>>, rwc, id1, j, id2, k,
                               <<rooms[id1].window_parameters[j + 1],
                                 rooms[id2].window_parameters[k + 1]>>,
                               <<>>, res.raised)

AdjResetAdjacency ==
    \E id \in RoomIds :
        /\ ops < MaxOps
        /\ ops' = ops + 1
        /\ rooms' = [rooms EXCEPT ![id] = ResetAdjacency(rooms[id]).room]
        /\ lastOp' = AdjOp("reset_adjacency", <<>>, TRUE, id, -1, "", -1, NoWps, <<>>, "")

AdjPatchMissingAdjacencies ==
    \E room_2ds \in RoomLists :
        LET res == PatchMissingAdjacencies(rooms, room_2ds)
        IN  /\ ops < MaxOps
            /\ ops' = ops + 1
            /\ rooms' = res.rooms
            /\ lastOp' = AdjOp("patch_missing_adjacencies", room_2ds, TRUE, "", -1, "", -1,
                               NoWps, <<>>, res.raised)

NextAdj ==
    \/ AdjSolveAdjacency
    \/ AdjSetAdjacency
    \/ AdjResetAdjacency
    \/ AdjPatchMissingAdjacencies

SpecAdj == InitAdj /\ [][NextAdj]_vars


(***************************************************************************)
(* Properties of the adjacency resolver.                                   *)
(***************************************************************************)
InList(room_2ds, id) == \E n \in 1..Len(room_2ds) : room_2ds[n] = id

\* segment i of room a, if it is a Surface, is referenced back by the segment
\* it references
LinkedBack(rs, a, i) ==
    LET bc == rs[a].boundary_conditions[i + 1]
        b == bc.room
        j == FaceIndex(bc.face)
    IN  IsSurface(bc) =>
            /\ b \in DOMAIN rs
            /\ j >= 0 /\ j < Len(rs[b].boundary_conditions)
            /\ rs[b].boundary_conditions[j + 1] = Surface(FaceId(a, i), a)

\* C1: after solve_adjacency returns, every Surface segment i of a room A of
\* the list that references (B, j) is referenced back by segment j of B.
C1_AdjacencySymmetric ==
    (lastOp.op = "solve_adjacency" /\ lastOp.raised = "") =>
        \A a \in RoomIds : InList(lastOp.room_2ds, a) =>
            \A i \in 0..(Len(rooms[a].boundary_conditions) - 1) : LinkedBack(rooms, a, i)

\* C2: a second solve_adjacency on the same list of rooms, in the same order
\* and with the same tolerance, leaves every boundary condition as the first
\* call left it.
C2_SolveAdjacencyIdempotent ==
    [][(/\ lastOp.op = "solve_adjacency" /\ lastOp.raised = ""
        /\ lastOp'.op = "solve_adjacency" /\ lastOp'.raised = ""
        /\ lastOp'.room_2ds = lastOp.room_2ds
        /\ lastOp'.rwc = lastOp.rwc)
       => \A a \in RoomIds :
            rooms'[a].boundary_conditions = rooms[a].boundary_conditions]_vars

\* C3: solve_adjacency never changes the boundary condition of a segment that
\* is already a Surface: one that was a Surface before the call keeps its
\* condition, and no segment is matched twice during one call.
C3_SurfaceSegmentsNotRematched ==
    [][lastOp'.op = "solve_adjacency" =>
        /\ \A a \in RoomIds :
             rooms'[a].boundary = rooms[a].boundary =>
                \A i \in 1..Len(rooms[a].boundary_conditions) :
                    IsSurface(rooms[a].boundary_conditions[i]) =>
                        rooms'[a].boundary_conditions[i] = rooms[a].boundary_conditions[i]
        /\ \A m, n \in 1..Len(lastOp'.adj_info) :
             m # n => /\ lastOp'.adj_info[m][1] # lastOp'.adj_info[n][1]
                      /\ lastOp'.adj_info[m][2] # lastOp'.adj_info[n][2]
                      /\ lastOp'.adj_info[m][1] # lastOp'.adj_info[n][2]]_vars

\* C4: after patch_missing_adjacencies(rooms) every Surface condition left on
\* a segment i of a room A of the list references a room B of the list and a
\* segment j of B that is a Surface referencing (A, i).
C4_PatchLeavesOnlyMutualSurfaces ==
    lastOp.op = "patch_missing_adjacencies" =>
        \A a \in RoomIds : InList(lastOp.room_2ds, a) =>
            \A i \in 0..(Len(rooms[a].boundary_conditions) - 1) :
                /\ LinkedBack(rooms, a, i)
                /\ IsSurface(rooms[a].boundary_conditions[i + 1]) =>
                      InList(lastOp.room_2ds, rooms[a].boundary_conditions[i + 1].room)


\* The window parameters of the two segments of the last set_adjacency: what
\* they were, their areas for a wall height, and what the segments carry now.
Wp1 == lastOp.wps[1]

Wp2 == lastOp.wps[2]

Seg1 == FloorSegments(rooms[lastOp.id1])[lastOp.j + 1]

Seg2 == FloorSegments(rooms[lastOp.id2])[lastOp.k + 1]

Now1 == rooms[lastOp.id1].window_parameters[lastOp.j + 1]

Now2 == rooms[lastOp.id2].window_parameters[lastOp.k + 1]

\* both segments carry the first segment's parameter, flipped onto the second
FirstKept == Now1 = Wp1 /\ Now2 = FlipIfAsymmetric(Wp1, SegLength(Seg2))

\* both segments carry the second segment's parameter, flipped onto the first
SecondKept == Now2 = Wp2 /\ Now1 = FlipIfAsymmetric(Wp2, SegLength(Seg1))

ResolvedConflict ==
    /\ lastOp.op = "set_adjacency" /\ lastOp.rwc /\ lastOp.raised = ""
    /\ Wp1 # Wp2

MinCeilingHeight ==
    Min2(CeilingHeight(rooms[lastOp.id1]), CeilingHeight(rooms[lastOp.id2]))

MinFloorToCeiling ==
    Min2(rooms[lastOp.id1].floor_to_ceiling_height,
         rooms[lastOp.id2].floor_to_ceiling_height)

\* C9 as stated: a conflict between unequal window parameters is resolved in
\* favour of the parameter with the larger area, the areas computed with the
\* smaller of the two rooms' ceiling heights.
C9_LargerAreaByCeilingHeight ==
    ResolvedConflict =>
        LET a1 == AreaFromSegment(Wp1, Seg1, MinCeilingHeight)
            a2 == AreaFromSegment(Wp2, Seg2, MinCeilingHeight)
        IN  /\ a1 > a2 => FirstKept
            /\ a2 > a1 => SecondKept
            /\ a1 = a2 => FirstKept \/ SecondKept

\* C9 amended: the areas are computed with the smaller of the two rooms'
\* floor-to-ceiling heights; the first segment's parameter is kept when its
\* area is strictly larger, the second segment's parameter otherwise.
C9_LargerAreaByFloorToCeiling ==
    ResolvedConflict =>
        LET a1 == AreaFromSegment(Wp1, Seg1, MinFloorToCeiling)
            a2 == AreaFromSegment(Wp2, Seg2, MinFloorToCeiling)
        IN  IF a1 > a2 THEN FirstKept ELSE SecondKept

\* a conflict in which the two heights rank the two parameters differently
C9_Witness ==
    /\ ResolvedConflict
    /\ Wp1 # NoWin /\ Wp2 # NoWin
    /\ AreaFromSegment(Wp1, Seg1, MinCeilingHeight) > AreaFromSegment(Wp2, Seg2, MinCeilingHeight)
    /\ AreaFromSegment(Wp1, Seg1, MinFloorToCeiling) < AreaFromSegment(Wp2, Seg2, MinFloorToCeiling)
    /\ SecondKept

\* C10: without conflict resolution set_adjacency raises when the window
\* parameters of the two segments are not equal, one of them being None
\* included; solve_adjacency then raises too: when it returns, the segments
\* of every pair it matched carry equal parameters.
C10_ConflictRaises ==
    /\ (lastOp.op = "set_adjacency" /\ ~lastOp.rwc /\ Wp1 # Wp2)
          => lastOp.raised = "AssertionError"
    /\ (lastOp.op = "solve_adjacency" /\ ~lastOp.rwc /\ lastOp.raised = "")
          => \A n \in 1..Len(lastOp.adj_info) :
                LET p == lastOp.adj_info[n]
                IN  rooms[p[1][1]].window_parameters[p[1][2] + 1]
                        = rooms[p[2][1]].window_parameters[p[2][2] + 1]

\* set_adjacency raised on a segment with windows meeting one without
C10_Witness ==
    /\ lastOp.op = "set_adjacency" /\ ~lastOp.rwc
    /\ lastOp.raised = "AssertionError"
    /\ (Wp1 = NoWin) # (Wp2 = NoWin)
    /\ IsSurface(rooms[lastOp.id1].boundary_conditions[lastOp.j + 1])


(***************************************************************************)
(* What solve_adjacency matches and what it returns.                       *)
(***************************************************************************)
\* the end points of two segments coincide within the tolerance, in the same
\* or in the opposite direction
EndpointsCoincide(seg_a, seg_b, tol) ==
    \/ IsEquivalent(seg_a[1], seg_b[1], tol) /\ IsEquivalent(seg_a[2], seg_b[2], tol)
    \/ IsEquivalent(seg_a[1], seg_b[2], tol) /\ IsEquivalent(seg_a[2], seg_b[1], tol)

\* the n-th pair returned by the last solve_adjacency, as segments
PairSeg(n, side) ==
    LET p == lastOp.adj_info[n][side]
    IN  FloorSegments(rooms[p[1]])[p[2] + 1]

\* C11: solve_adjacency matches a segment of a room A with a segment of a
\* room B only when the end points of the two segments coincide within the
\* tolerance (in the same or the opposite direction): two segments whose end
\* points do not coincide are never linked.
C11_MatchOnlyCoincidingSegments ==
    (lastOp.op = "solve_adjacency" /\ lastOp.raised = "") =>
        \A n \in 1..Len(lastOp.adj_info) :
            EndpointsCoincide(PairSeg(n, 1), PairSeg(n, 2), Tol)

\* C12: every pair ((A, i), (B, j)) that solve_adjacency returns is a link of
\* the final state: segment i of A is a Surface referencing (B, j) and
\* segment j of B is a Surface referencing (A, i), and no pair is returned
\* twice.
C12_ReturnedPairsAreLinks ==
    (lastOp.op = "solve_adjacency" /\ lastOp.raised = "") =>
        /\ \A n \in 1..Len(lastOp.adj_info) :
             LET a == lastOp.adj_info[n][1]
                 b == lastOp.adj_info[n][2]
             IN  /\ rooms[a[1]].boundary_conditions[a[2] + 1] = Surface(FaceId(b[1], b[2]), b[1])
                 /\ rooms[b[1]].boundary_conditions[b[2] + 1] = Surface(FaceId(a[1], a[2]), a[1])
        /\ \A m, n \in 1..Len(lastOp.adj_info) :
             m # n => lastOp.adj_info[m] # lastOp.adj_info[n]


(***************************************************************************)
(* A room that shares no wall with the others (SpecSolve): R1 is one of    *)
(* the floor plans of Layouts at the origin, R2 is a square that touches   *)
(* the corner (8, 8) of the big plan and R3 is a square that shares a wall *)
(* with R2.                                                                *)
(***************************************************************************)
SoloBoundary(id) ==
    IF id = "R2" THEN <<<<8, 8>>, <<12, 8>>, <<12, 12>>, <<8, 12>>>>
    ELSE <<<<12, 8>>, <<16, 8>>, <<16, 12>>, <<12, 12>>>>

SoloLists == {<<"R1", "R2", "R3">>, <<"R2", "R3", "R1">>, <<"R1", "R2">>, <<"R3", "R1">>}

InitSolo ==
    /\ \E lay \in Layouts :
         LET n == Len(lay.boundary) + Len(Flatten(lay.holes))
         IN  \E bc \in InitBCs(n) :
               rooms = [id \in RoomIds |->
                          IF id = "R1"
                          THEN NewRoom(id, lay.boundary, lay.holes, 0, 3, bc, NoneList, NoneList)
                          ELSE NewRoom(id, SoloBoundary(id), <<>>, 0, 3,
                                       NoneList, NoneList, NoneList)]
    /\ lastOp = AdjOp("__init__", <<>>, TRUE, "", -1, "", -1, NoWps, <<>>, "")
    /\ ops = 0

SoloSolveAdjacency ==
    \E room_2ds \in SoloLists, rwc \in BOOLEAN :
        LET res == SolveAdjacency(rooms, room_2ds, Tol, rwc)
        IN  /\ ops < MaxOps
            /\ ops' = ops + 1
            /\ rooms' = res.rooms
            /\ lastOp' = AdjOp("solve_adjacency", room_2ds, rwc, "", -1, "", -1, NoWps,
                               res.adj_info, res.raised)

SoloSetAirBoundary ==
    \E seg \in Segs :
        LET res == SetAirBoundary(rooms["R1"], seg)
        IN  /\ ops < MaxOps
            /\ ops' = ops + 1
            /\ rooms' = [rooms EXCEPT !["R1"] = res.room]
            /\ lastOp' = AdjOp("set_air_boundary", <<>>, TRUE, "R1", seg, "", -1, NoWps,
                               <<>>, res.raised)

SoloResetAdjacency ==
    \E id \in RoomIds :
        /\ ops < MaxOps
        /\ ops' = ops + 1
        /\ rooms' = [rooms EXCEPT ![id] = ResetAdjacency(rooms[id]).room]
        /\ lastOp' = AdjOp("reset_adjacency", <<>>, TRUE, id, -1, "", -1, NoWps, <<>>, "")

NextSolo ==
    \/ SoloSolveAdjacency
    \/ SoloSetAirBoundary
    \/ SoloResetAdjacency

SpecSolve == InitSolo /\ [][NextSolo]_vars

\* segment seg_b lies along segment seg_a: both its end points are within the
\* tolerance of seg_a
LiesAlong(seg_a, seg_b, tol) ==
    DistanceToPointLeq(seg_a, seg_b[1], tol) /\ DistanceToPointLeq(seg_a, seg_b[2], tol)

\* room a shares no wall with any other room of the list: no segment of one
\* lies along a segment of the other
NotAdjacent(rs, a, room_2ds) ==
    \A b \in RoomIds \ {a} : InList(room_2ds, b) =>
        \A i \in 1..GeometrySegmentCount(rs[a]), j \in 1..GeometrySegmentCount(rs[b]) :
            /\ ~LiesAlong(FloorSegments(rs[a])[i], FloorSegments(rs[b])[j], Tol)
            /\ ~LiesAlong(FloorSegments(rs[b])[j], FloorSegments(rs[a])[i], Tol)

\* the floor geometry and the per-segment properties of two rooms are equal
SameProperties(r1, r2) ==
    /\ r1.boundary = r2.boundary
    /\ r1.holes = r2.holes
    /\ r1.boundary_conditions = r2.boundary_conditions
    /\ r1.window_parameters = r2.window_parameters
    /\ r1.shading_parameters = r2.shading_parameters
    /\ AirBoundaries(r1) = AirBoundaries(r2)

\* the last step was a solve_adjacency that returned, and room a of its list
\* shares no wall with another room of the list
SolvedApartFrom(a) ==
    /\ lastOp'.op = "solve_adjacency" /\ lastOp'.raised = ""
    /\ InList(lastOp'.room_2ds, a)
    /\ NotAdjacent(rooms', a, lastOp'.room_2ds)

\* C13 as stated: solve_adjacency leaves every room of its list that is
\* adjacent to no other room of the list untouched: floor geometry, boundary
\* conditions, window parameters, shading parameters and air boundaries are
\* what they were before the call.
C13_NonAdjacentUntouched ==
    [][\A a \in RoomIds : SolvedApartFrom(a) => SameProperties(rooms'[a], rooms[a])]_vars

\* C13 amended: solve_adjacency leaves every room of its list that is
\* adjacent to no other room of the list as remove_duplicate_vertices with
\* the same tolerance alone leaves it.
C13_NonAdjacentOnlyDeduplicated ==
    [][\A a \in RoomIds : SolvedApartFrom(a) =>
          SameProperties(rooms'[a], RemoveDuplicateVertices(rooms[a], Tol).room)]_vars

\* solve_adjacency returned on a list with R1, whose doubled vertex it
\* removed while it linked R2 and R3; R1 touches R2 in no wall
C13_Witness ==
    /\ lastOp.op = "solve_adjacency" /\ lastOp.raised = ""
    /\ lastOp.room_2ds = <<"R1", "R2", "R3">>
    /\ lastOp.adj_info # <<>>
    /\ NotAdjacent(rooms, "R1", lastOp.room_2ds)
    /\ rooms["R1"].boundary = Square
    /\ rooms["R1"].boundary_conditions = <<Outdoors, SurfaceElsewhere, Outdoors, Outdoors>>


(***************************************************************************)
(* The room volume under a roof (_room_volume_with_roof and its helpers).  *)
(* A volume is the list of its faces and the flaws of its edges as         *)
(* ladybug_geometry reports them: "overlap" (edges that overlap without    *)
(* being merged), "gap" (a vertical gap between two roofs), "hole" (a      *)
(* closed planar loop of naked edges) and "tear" (a loop of naked edges    *)
(* that is not planar) are naked edges, "manifold" is an edge shared by    *)
(* more than two faces.  A face is loose when it shares at most one edge   *)
(* with the other faces or is a degenerate sliver.                         *)
(***************************************************************************)
Face3D(kind, seg, loose) == [kind |-> kind, seg |-> seg, loose |-> loose]

\* Polyface3D.from_faces(p_faces, tolerance)
Polyface3D(faces, flaws) == [faces |-> faces, flaws |-> flaws]

NoPolyface == Polyface3D(<<>>, {})

AnyLoose(room_polyface) ==
    \E i \in 1..Len(room_polyface.faces) : room_polyface.faces[i].loose

\* Polyface3D.is_solid
IsSolid(room_polyface) == room_polyface.flaws = {} /\ ~AnyLoose(room_polyface)

\* len(room_polyface.naked_edges) != 0
HasNakedEdges(room_polyface) ==
    room_polyface.flaws \cap {"overlap", "gap", "hole", "tear"} # {} \/ AnyLoose(room_polyface)

\* Polyface3D.merge_overlapping_edges(tolerance, ang_tol)
MergeOverlappingEdges(room_polyface) ==
    [room_polyface EXCEPT !.flaws = @ \ {"overlap"}]

\* list(range(st_v, st_v - n, -1))
RangeDown(st_v, n) == [t \in 1..n |-> st_v - (t - 1)]

\* the walls of the floor segments, in the order of the segments
WallFaces(n, loose) ==
    [i \in 1..n |-> Face3D("wall", i - 1, [kind |-> "wall", seg |-> i - 1] \in loose)]

\* Room2D._patch_vertical_gaps(room_polyface, roof_face_i, tolerance)
PatchVerticalGaps(room_polyface, roof_face_i) ==
    LET clean_vert_faces == IF "gap" \in room_polyface.flaws
                            THEN <<Face3D("patch", -1, FALSE)>> ELSE <<>>
        st_v == -Len(clean_vert_faces) - 1
    IN  [polyface |-> Polyface3D(room_polyface.faces \o clean_vert_faces,
                                 room_polyface.flaws \ {"gap"}),
         roof_face_i |-> RangeDown(st_v, Len(roof_face_i)),
         raised |-> ""]

\* Room2D._cap_planar_holes(room_polyface, roof_face_i, tolerance)
CapPlanarHoles(room_polyface, roof_face_i) ==
    LET clean_cap_faces == IF "hole" \in room_polyface.flaws
                           THEN <<Face3D("cap", -1, FALSE)>> ELSE <<>>
        st_v == -Len(clean_cap_faces) + roof_face_i[1]
        same == [polyface |-> room_polyface, roof_face_i |-> roof_face_i, raised |-> ""]
    IN  IF ~HasNakedEdges(room_polyface) THEN same
        ELSE IF Len(clean_cap_faces) = 0 THEN same
        ELSE IF roof_face_i = <<>> THEN [same EXCEPT !.raised = "IndexError"]
        ELSE [polyface |-> Polyface3D(room_polyface.faces \o clean_cap_faces,
                                      room_polyface.flaws \ {"hole"}),
              roof_face_i |-> RangeDown(st_v, Len(roof_face_i)),
              raised |-> ""]

\* Room2D._separate_disconnected_faces(room_polyface, roof_face_i, tolerance);
\* max_wall_i is len(self).  ex_none: ex_wall_i is None.
SeparateDisconnectedFaces(room_polyface, roof_face_i, max_wall_i) ==
    LET faces == room_polyface.faces
        disconnect_i == {i \in 0..(Len(faces) - 1) : faces[i + 1].loose}
        p_faces == SelectSeq(faces, LAMBDA f : ~f.loose)
        low_i == roof_face_i[1] + Len(faces)
        ex_wall_i == {del_i - 1 : del_i \in {d \in disconnect_i :
                                                ~(d > low_i) /\ d <= max_wall_i}}
        loop[t \in 0..Len(roof_face_i)] ==
            IF t = 0
            THEN [sub_i |-> Cardinality({d \in disconnect_i : d > low_i}),
                  new_roof_face_i |-> <<>>]
            ELSE IF roof_face_i[t] + Len(faces) \in disconnect_i
                 THEN [loop[t - 1] EXCEPT !.sub_i = @ + 1]
                 ELSE [loop[t - 1] EXCEPT
                          !.new_roof_face_i = Append(@, roof_face_i[t] + loop[t - 1].sub_i)]
    IN  IF disconnect_i = {}
        THEN [polyface |-> Polyface3D(p_faces, room_polyface.flaws),
              roof_face_i |-> roof_face_i, ex_none |-> TRUE, ex_wall_i |-> {},
              raised |-> ""]
        ELSE IF roof_face_i = <<>>
        THEN [polyface |-> room_polyface, roof_face_i |-> roof_face_i,
              ex_none |-> FALSE, ex_wall_i |-> {}, raised |-> "IndexError"]
        ELSE [polyface |-> Polyface3D(p_faces, room_polyface.flaws),
              roof_face_i |-> loop[Len(roof_face_i)].new_roof_face_i,
              ex_none |-> FALSE, ex_wall_i |-> ex_wall_i, raised |-> ""]

\* the merge that follows a repair: "if not room_polyface.is_solid: merge"
MergeUnlessSolid(room_polyface) ==
    IF IsSolid(room_polyface) THEN room_polyface ELSE MergeOverlappingEdges(room_polyface)

\* a repair order that caps the holes before it drops the loose faces
RepairStagesCapFirst == <<"merge", "patch", "cap", "separate">>

\* the repairs of _room_volume_with_roof, in the order of the code
RepairStages == <<"merge", "patch", "separate", "cap">>

\* one repair with its guard; st holds the volume, the roof indices, the
\* excluded walls, the repairs applied so far (log) and the exception raised
RepairStage(st, stage, max_wall_i) ==
    LET pf == st.polyface
        pat == PatchVerticalGaps(pf, st.roof_face_i)
        sep == SeparateDisconnectedFaces(pf, st.roof_face_i, max_wall_i)
        cap == CapPlanarHoles(pf, st.roof_face_i)
        logged == [st EXCEPT !.log = Append(@, stage)]
    IN  IF st.raised # "" THEN st
        ELSE IF stage = "merge"
        THEN IF ~IsSolid(pf)
             THEN [logged EXCEPT !.polyface = MergeOverlappingEdges(pf)]
             ELSE st
        ELSE IF stage = "patch"
        THEN IF HasNakedEdges(pf)
             THEN [logged EXCEPT !.polyface = MergeUnlessSolid(pat.polyface),
                                 !.roof_face_i = pat.roof_face_i]
             ELSE st
        ELSE IF stage = "separate"
        THEN IF ~IsSolid(pf)
             THEN IF sep.raised # "" THEN [logged EXCEPT !.raised = sep.raised]
                  ELSE [logged EXCEPT !.polyface = MergeUnlessSolid(sep.polyface),
                                      !.roof_face_i = sep.roof_face_i,
                                      !.ex_none = sep.ex_none,
                                      !.ex_wall_i = sep.ex_wall_i]
             ELSE st
        ELSE IF HasNakedEdges(pf)
             THEN IF cap.raised # "" THEN [logged EXCEPT !.raised = cap.raised]
                  ELSE [logged EXCEPT !.polyface = MergeUnlessSolid(cap.polyface),
                                      !.roof_face_i = cap.roof_face_i]
             ELSE st

RECURSIVE Repair(_, _, _)
Repair(st, stages, max_wall_i) ==
    IF stages = <<>> THEN st
    ELSE Repair(RepairStage(st, Head(stages), max_wall_i), Tail(stages), max_wall_i)

\* _room_volume_with_roof, "gather all of the relevant roof polygons": rels
\* holds rf_py.polygon_relationship(room_poly, tolerance) of every roof
\* polygon (-1 outside, 0 overlapping, 1 the room inside the roof); the first
\* polygon that bounds the room alone is kept
RelevantRoofs(rels) ==
    LET full == {i \in 1..Len(rels) : rels[i] = 1}
        upto == IF full = {} THEN Len(rels) ELSE SetMin(full)
    IN  [is_full_bound |-> full # {},
         rel_rf_polys |-> IF full # {} THEN <<SetMin(full)>>
                          ELSE SelectSeq([i \in 1..upto |-> i], LAMBDA i : rels[i] >= 0)]

\* Room2D._roof_faces: None when the intersection fails, else one face for
\* every relevant roof polygon and, when these do not cover the room, a
\* horizontal face at the ceiling height; degenerate faces are left out
RoofFaces(rel_rf_polys, geo) ==
    LET r == Len(rel_rf_polys) + (IF geo.roof.covered THEN 0 ELSE 1)
    IN  [none |-> geo.build = "roof_faces_none",
         faces |-> IF geo.build = "roofs_degenerate" THEN <<>>
                   ELSE [k \in 1..r |->
                           Face3D("roof", k - 1, [kind |-> "roof", seg |-> k - 1] \in geo.loose)]]

\* the outcome of _room_volume_with_roof: (room_polyface, roof_face_i,
\* ex_wall_i), with the faces first assembled and the repairs applied
Volume(room_polyface, roof_face_i, ex_none, ex_wall_i, assembled, log, raised) ==
    [none |-> FALSE, polyface |-> room_polyface, roof_face_i |-> roof_face_i,
     ex_none |-> ex_none, ex_wall_i |-> ex_wall_i, assembled |-> assembled,
     log |-> log, raised |-> raised]

\* return None, None, None
NoVolume ==
    [none |-> TRUE, polyface |-> NoPolyface, roof_face_i |-> <<>>,
     ex_none |-> TRUE, ex_wall_i |-> {}, assembled |-> <<>>, log |-> <<>>, raised |-> ""]

\* Room2D._room_volume_with_roof(roof_spec, tolerance); geo holds what the
\* geometry library finds for this room and roof
RoomVolumeWithRoof(room, geo) ==
    LET rel == RelevantRoofs(geo.roof.rels)
        floor == Face3D("floor", -1, [kind |-> "floor", seg |-> -1] \in geo.loose)
        walls == WallFaces(GeometrySegmentCount(room), geo.loose)
        \* when fully bounded
        one_roof == Face3D("roof", 0, [kind |-> "roof", seg |-> 0] \in geo.loose)
        fast_faces == <<floor>> \o walls \o <<one_roof>>
        fast_polyface == Polyface3D(fast_faces, geo.flaws)
        sep == SeparateDisconnectedFaces(fast_polyface, <<-1>>, room.segment_count)
        \* when multiple roofs
        roof_faces == RoofFaces(rel.rel_rf_polys, geo)
        n_rel == IF Len(roof_faces.faces) > Len(rel.rel_rf_polys)
                 THEN Len(roof_faces.faces) ELSE Len(rel.rel_rf_polys)
        walls_none == n_rel = 0 \/ geo.build = "walls_none"
        p_faces == <<floor>> \o walls \o roof_faces.faces
        st0 == [polyface |-> Polyface3D(p_faces, geo.flaws),
                roof_face_i |-> RangeDown(-1, Len(roof_faces.faces)),
                ex_none |-> TRUE, ex_wall_i |-> {}, log |-> <<>>, raised |-> ""]
        st == Repair(st0, RepairStages, room.segment_count)
    IN  IF rel.is_full_bound
        THEN IF IsSolid(fast_polyface)
             THEN Volume(fast_polyface, <<-1>>, TRUE, {}, fast_faces, <<>>, "")
             ELSE Volume(Polyface3D(fast_faces, geo.flaws), sep.roof_face_i,
                         sep.ex_none, sep.ex_wall_i, fast_faces, <<"separate">>, sep.raised)
        ELSE IF roof_faces.none THEN NoVolume
        ELSE IF walls_none THEN NoVolume
        ELSE Volume(st.polyface, st.roof_face_i, st.ex_none, st.ex_wall_i,
                    p_faces, st.log, st.raised)

\* Polyface3D.from_offset_face(floor_geometry, floor_to_ceiling_height)
FromOffsetFace(room) ==
    Polyface3D(<<Face3D("floor", -1, FALSE)>>
                   \o WallFaces(GeometrySegmentCount(room), {})
                   \o <<Face3D("roof", 0, FALSE)>>, {})

\* to_honeybee, "if not all walls are present, reset IDs so that adjacencies
\* work": the number in the identifier '<room id>..Face<n>' of every face of
\* hb_room.  Room.from_polyface3d numbers the faces from 0; skipped counts
\* the excluded walls that the loop has stepped over.
RECURSIVE RenamedFaces(_, _, _, _)
RenamedFaces(i, n_faces, skipped, ex_wall_i) ==
    IF i >= n_faces THEN <<>>
    ELSE LET skipped1 == IF i - 1 + skipped \in ex_wall_i THEN skipped + 1 ELSE skipped
         IN  <<i + skipped1>> \o RenamedFaces(i + 1, n_faces, skipped1, ex_wall_i)

FaceNumbers(n_faces, ex_none, ex_wall_i) ==
    IF ex_none \/ ex_wall_i = {} THEN [t \in 1..n_faces |-> t - 1]
    ELSE RenamedFaces(0, n_faces, 0, ex_wall_i)

\* to_honeybee, the loops that assign the boundary conditions, windows,
\* shades and air boundaries: hb_room[i + 1 - skip] for every segment i that
\* is not in ex_wall_i, as the Python index of the face
SegmentFace(i, ex_none, ex_wall_i) ==
    i + 1 - (IF ex_none THEN 0 ELSE Cardinality({e \in ex_wall_i : e >= 0 /\ e < i}))

AssignedSegments(n_segs, ex_none, ex_wall_i) ==
    {i \in 0..(n_segs - 1) : ex_none \/ i \notin ex_wall_i}

\* the faces of the Honeybee room: for every face of the volume the number of
\* its identifier and the segments whose properties it was given
HbFaces(room, room_polyface, ex_none, ex_wall_i) ==
    LET n_faces == Len(room_polyface.faces)
        numbers == FaceNumbers(n_faces, ex_none, ex_wall_i)
        segs == AssignedSegments(Len(room.boundary_conditions), ex_none, ex_wall_i)
    IN  [raised |-> IF \E i \in segs : SegmentFace(i, ex_none, ex_wall_i) >= n_faces
                    THEN "IndexError" ELSE "",
         faces |-> [t \in 1..n_faces |->
                      [identifier |-> <<room.identifier, numbers[t]>>,
                       kind |-> room_polyface.faces[t].kind,
                       seg |-> room_polyface.faces[t].seg,
                       given |-> {i \in segs : SegmentFace(i, ex_none, ex_wall_i) = t - 1}]]]

\* a translation that keeps every volume the roof gave, solid or not
HasRoofUnlessNone(none, is_solid, enforce_solid) == ~none

\* to_honeybee: "if room_polyface is None ... elif enforce_solid and not
\* room_polyface.is_solid ... else has_roof = True"
HasRoof(none, is_solid, enforce_solid) ==
    IF none THEN FALSE
    ELSE IF enforce_solid /\ ~is_solid THEN FALSE
    ELSE TRUE

\* Room2D.to_honeybee(multiplier, tolerance, enforce_bc, enforce_solid), the
\* room volume and its roof faces; roof_spec is what the parent Story gives
\* for the room: "None" or the roof geometry geo
ToHoneybeeVolume(room, roof_spec, geo, enforce_solid) ==
    LET rdv == RemoveDuplicateVertices(room, Tol)
        room1 == IF roof_spec = "None" THEN room ELSE rdv.room
        built == IF roof_spec = "None" THEN NoVolume ELSE RoomVolumeWithRoof(room1, geo)
        has_roof == /\ roof_spec # "None"
                    /\ HasRoof(built.none, IsSolid(built.polyface), enforce_solid)
        raised == IF roof_spec = "None" THEN ""
                  ELSE IF rdv.raised \notin {"", "ValueError"} THEN rdv.raised
                  ELSE built.raised
    IN  [room |-> room1,
         called |-> roof_spec # "None" /\ rdv.raised \in {"", "ValueError"},
         built |-> built,
         has_roof |-> has_roof,
         polyface |-> IF raised # "" THEN NoPolyface
                      ELSE IF has_roof THEN built.polyface ELSE FromOffsetFace(room1),
         roof_face_i |-> IF has_roof THEN built.roof_face_i ELSE <<-1>>,
         ex_none |-> built.ex_none,
         ex_wall_i |-> built.ex_wall_i,
         raised |-> raised]

\* to_honeybee, from the Honeybee room made of the volume to the end
HbRoom(vol) ==
    LET hb == HbFaces(vol.room, vol.polyface, vol.ex_none, vol.ex_wall_i)
    IN  [room |-> vol.room,
         called |-> vol.called,
         built |-> vol.built,
         has_roof |-> vol.has_roof,
         polyface |-> vol.polyface,
         roof_face_i |-> vol.roof_face_i,
         ex_none |-> vol.ex_none,
         ex_wall_i |-> vol.ex_wall_i,
         hb_faces |-> IF vol.raised # "" THEN <<>> ELSE hb.faces,
         raised |-> IF vol.raised # "" THEN vol.raised ELSE hb.raised]

\* Room2D.to_honeybee: the volume is built, then its faces are named and
\* given the properties of the segments
ToHoneybee(room, roof_spec, geo, enforce_solid) ==
    CHOOSE res \in {HbRoom(vol) :
                       vol \in {ToHoneybeeVolume(room, roof_spec, geo, enforce_solid)}} :
        TRUE

(***************************************************************************)
(* One room translated to Honeybee under the roofs of its Story (SpecRoof).*)
(***************************************************************************)
\* the roof polygons over the room and whether their parts over the room
\* cover it
RoofCases ==
    {[rels |-> <<-1>>, covered |-> FALSE], [rels |-> <<1>>, covered |-> TRUE],
     [rels |-> <<0>>, covered |-> FALSE], [rels |-> <<0, 0>>, covered |-> TRUE],
     [rels |-> <<0, 0>>, covered |-> FALSE], [rels |-> <<0, 1>>, covered |-> TRUE]}

FlawSets ==
    {{}, {"overlap"}, {"gap"}, {"hole"}, {"gap", "hole"}, {"tear"}, {"manifold"}}

LooseSets ==
    {{}, {[kind |-> "wall", seg |-> 1]}, {[kind |-> "roof", seg |-> 0]},
     {[kind |-> "floor", seg |-> -1]},
     {[kind |-> "wall", seg |-> 1], [kind |-> "wall", seg |-> 2]}}

\* what the geometry library can find: the intersection or the walls fail
\* only where they are computed, a room without any roof over it is closed by
\* the horizontal face, a face that was left out is not loose; two loose
\* walls are tried on volumes that have no other flaw
GeoCases ==
    {geo \in [roof : RoofCases,
              build : {"ok", "roof_faces_none", "walls_none", "roofs_degenerate"},
              flaws : FlawSets, loose : LooseSets] :
        LET rel == RelevantRoofs(geo.roof.rels)
        IN  /\ rel.is_full_bound => geo.build = "ok"
            /\ geo.build \in {"roof_faces_none", "walls_none"} =>
                  /\ rel.rel_rf_polys # <<>>
                  /\ geo.flaws = {} /\ geo.loose = {}
            /\ rel.rel_rf_polys = <<>> => geo.flaws = {} /\ geo.loose = {}
            /\ geo.build = "roofs_degenerate" =>
                  /\ [kind |-> "roof", seg |-> 0] \notin geo.loose
                  /\ geo.flaws \in {{}, {"hole"}}
            /\ Cardinality(geo.loose) > 1 => geo.build = "ok" /\ geo.flaws = {}}

NoGeo == [roof |-> [rels |-> <<>>, covered |-> FALSE], build |-> "ok",
          flaws |-> {}, loose |-> {}]

\* the number of translations of one behaviour
MaxBuilds == 1

InitRoof ==
    /\ \E lay \in Layouts :
         rooms = [id \in {"R1"} |->
                    NewRoom(id, lay.boundary, lay.holes, 0, 3, NoneList, NoneList, NoneList)]
    /\ lastOp = [op |-> "__init__", roof_spec |-> "None", geo |-> NoGeo,
                 enforce_solid |-> TRUE, res |-> ToHoneybee(Room, "None", NoGeo, TRUE)]
    /\ ops = 0

\* to_honeybee of a room whose Story has no roof over it
RoofToHoneybeeWithoutRoof ==
    \E enforce_solid \in BOOLEAN :
        LET res == ToHoneybee(Room, "None", NoGeo, enforce_solid)
        IN  /\ ops < MaxBuilds
            /\ ops' = ops + 1
            /\ rooms' = [rooms EXCEPT !["R1"] = res.room]
            /\ lastOp' = [op |-> "to_honeybee", roof_spec |-> "None", geo |-> NoGeo,
                          enforce_solid |-> enforce_solid, res |-> res]

\* to_honeybee of a room under a roof specification
RoofToHoneybee ==
    \E geo \in GeoCases, enforce_solid \in BOOLEAN :
        LET res == ToHoneybee(Room, "RoofSpecification", geo, enforce_solid)
        IN  /\ ops < MaxBuilds
            /\ ops' = ops + 1
            /\ rooms' = [rooms EXCEPT !["R1"] = res.room]
            /\ lastOp' = [op |-> "to_honeybee", roof_spec |-> "RoofSpecification",
                          geo |-> geo, enforce_solid |-> enforce_solid, res |-> res]

NextRoof ==
    \/ RoofToHoneybeeWithoutRoof
    \/ RoofToHoneybee

SpecRoof == InitRoof /\ [][NextRoof]_vars

\* the last step was a to_honeybee that called the roof volume builder
Built == lastOp.op = "to_honeybee" /\ lastOp.res.called

\* what the roof volume builder returned to the last to_honeybee
Returned == lastOp.res.built

\* a volume without a flaw and without a loose face
ClosedSolid(room_polyface) ==
    /\ room_polyface.flaws = {}
    /\ \A i \in 1..Len(room_polyface.faces) : ~room_polyface.faces[i].loose

\* C14 as stated: the roof volume builder returns None when the volume is
\* not a closed solid after all repairs; it never returns a polyface that is
\* not solid.
C14_NoneUnlessSolid ==
    (Built /\ Returned.raised = "") =>
        Returned.none \/ ClosedSolid(Returned.polyface)

\* C14 amended: a volume that is still not a closed solid after all repairs
\* is returned as it is, not None; to_honeybee uses it only when enforce_solid
\* is false, and with enforce_solid the volume of a room that kept its roof
\* is a closed solid.
C14_NonSolidUsedOnlyUnenforced ==
    (Built /\ lastOp.res.raised = "") =>
        /\ (lastOp.res.has_roof /\ lastOp.enforce_solid) => ClosedSolid(lastOp.res.polyface)
        /\ (~Returned.none /\ ~ClosedSolid(Returned.polyface)) =>
              /\ lastOp.res.has_roof = ~lastOp.enforce_solid
              /\ ~lastOp.enforce_solid => lastOp.res.polyface = Returned.polyface

\* the four repairs ran and left a volume that is not solid, which
\* to_honeybee with enforce_solid did not use
C14_Witness ==
    /\ Built /\ lastOp.res.raised = "" /\ lastOp.enforce_solid
    /\ Returned.log = <<"merge", "patch", "separate", "cap">>
    /\ ~Returned.none /\ ~ClosedSolid(Returned.polyface)
    /\ ~lastOp.res.has_roof

\* C15: when no roof polygon overlaps the floor polygon of the room, the
\* roof volume builder returns None.
C15_NoneWithoutRoofAbove ==
    (Built /\ \A i \in 1..Len(lastOp.geo.roof.rels) : lastOp.geo.roof.rels[i] = -1) =>
        Returned.none

\* the repairs of a log come in the order of their ranks
InOrder(log, rank) ==
    \A i, j \in 1..Len(log) : i < j => rank[log[i]] < rank[log[j]]

\* C16 as stated: the repairs are applied in the order edge merge, vertical
\* gap patch, planar hole capping, removal of the disconnected faces: a face
\* is dropped only after the gaps were patched and the holes capped.
C16_CapBeforeSeparate ==
    Built => InOrder(Returned.log,
                     [stage \in {"merge", "patch", "cap", "separate"} |->
                        CASE stage = "merge" -> 1 [] stage = "patch" -> 2
                          [] stage = "cap" -> 3 [] stage = "separate" -> 4])

\* C16 amended: the repairs are applied in the order edge merge, vertical
\* gap patch, removal of the disconnected faces, planar hole capping: the
\* holes are capped after the disconnected faces were dropped.
C16_SeparateBeforeCap ==
    Built => InOrder(Returned.log,
                     [stage \in {"merge", "patch", "cap", "separate"} |->
                        CASE stage = "merge" -> 1 [] stage = "patch" -> 2
                          [] stage = "separate" -> 3 [] stage = "cap" -> 4])

\* a loose roof face was dropped and the hole it left was capped afterwards
C16_Witness ==
    /\ Built /\ Returned.raised = "" /\ ~Returned.none
    /\ Returned.log = <<"merge", "patch", "separate", "cap">>
    /\ \E i \in 1..Len(Returned.assembled) :
          Returned.assembled[i].kind = "roof" /\ Returned.assembled[i].loose
    /\ \E i \in 1..Len(Returned.polyface.faces) : Returned.polyface.faces[i].kind = "cap"

\* the segments of the wall faces of a list of faces
WallSegs(faces) == {faces[i].seg : i \in {k \in 1..Len(faces) : faces[k].kind = "wall"}}

\* C17: the excluded-wall set returned with a roof volume holds exactly the
\* indices of the floor segments whose wall face is not in the returned
\* polyface (None standing for the empty set).
C17_ExcludedWallsAreDroppedWalls ==
    (Built /\ Returned.raised = "" /\ ~Returned.none) =>
        (IF Returned.ex_none THEN {} ELSE Returned.ex_wall_i)
            = WallSegs(Returned.assembled) \ WallSegs(Returned.polyface.faces)

\* C18: a failure of the roof never aborts to_honeybee: it raises nothing,
\* and when the builder returns None, or a polyface that is not solid while
\* enforce_solid is set, the volume is the extrusion of the floor polygon.
C18_RoofFailureFallsBack ==
    (lastOp.op = "to_honeybee" /\ lastOp.roof_spec # "None") =>
        /\ lastOp.res.raised = ""
        /\ (Returned.none \/ (lastOp.enforce_solid /\ ~ClosedSolid(Returned.polyface)))
              => lastOp.res.polyface = FromOffsetFace(Room)

(***************************************************************************)
(* Heights and plenum depths: what construction, the height and plenum     *)
(* setters, scale, separate_plenum and from_dict leave in a room, and what *)
(* check_plenum_depths reports about it.                                   *)
(***************************************************************************)
\* honeybee.typing.float_positive as the setters use it: the number is kept
\* unless it is negative, which is an AssertionError
FloatPositive(value) == value >= 0

\* floor_to_ceiling_height setter: the value is stored before it is tested for zero
SetFloorToCeilingHeight(room, value) ==
    IF ~FloatPositive(value)
    THEN Raise(room, "AssertionError")
    ELSE LET set == [room EXCEPT !.floor_to_ceiling_height = value]
         IN  IF value = 0 THEN Raise(set, "AssertionError") ELSE Ok(set)

SetCeilingPlenumDepth(room, value) ==
    IF FloatPositive(value)
    THEN Ok([room EXCEPT !.ceiling_plenum_depth = value])
    ELSE Raise(room, "AssertionError")

SetFloorPlenumDepth(room, value) ==
    IF FloatPositive(value)
    THEN Ok([room EXCEPT !.floor_plenum_depth = value])
    ELSE Raise(room, "AssertionError")

\* Room2D.scale(factor) from the World origin, for a positive factor.  Window
\* and shading parameters that are None are skipped by the two loops.
Scale(room, factor) ==
    LET sc(ring) == [i \in 1..Len(ring) |-> <<ring[i][1] * factor, ring[i][2] * factor>>]
    IN  [room EXCEPT !.boundary = sc(@),
                     !.holes = [h \in 1..Len(@) |-> sc(@[h])],
                     !.floor_height = @ * factor,
                     !.floor_to_ceiling_height = @ * factor,
                     !.ceiling_plenum_depth = @ * factor,
                     !.floor_plenum_depth = @ * factor]

\* '{}_{}_Plenum'.format(identifier, pln_typ), for the identifiers in use
PlenumId(identifier, pln_typ) ==
    CASE identifier = "R1" /\ pln_typ = "Floor" -> "R1_Floor_Plenum"
      [] identifier = "R1" /\ pln_typ = "Ceiling" -> "R1_Ceiling_Plenum"
      [] identifier = "R9" /\ pln_typ = "Floor" -> "R9_Floor_Plenum"
      [] identifier = "R9" /\ pln_typ = "Ceiling" -> "R9_Ceiling_Plenum"

NoRoom == [identifier |-> "None"]

\* Room2D.separate_plenum(target_floor_to_ceiling, floor_plenum, tolerance) for
\* a room without asymmetric window parameters (the others are duplicated as
\* they are).  The result holds the room, the returned plenum and what was raised;
\* the room's floor is moved before its height is set, so a target the height
\* setter rejects leaves the floor moved.
SeparatePlenum(room, target_floor_to_ceiling, floor_plenum, tolerance) ==
    IF target_floor_to_ceiling + tolerance >= room.floor_to_ceiling_height
    THEN [room |-> room, new_room |-> NoRoom, raised |-> ""]
    ELSE LET pln_typ == IF floor_plenum THEN "Floor" ELSE "Ceiling"
             new_bcs == [i \in 1..Len(room.boundary_conditions) |->
                           LET bc == room.boundary_conditions[i]
                           IN  IF IsSurface(bc)
                               THEN Surface(<<PlenumId(bc.room, pln_typ), bc.face[2]>>,
                                            PlenumId(bc.room, pln_typ))
                               ELSE bc]
             plenum_ftc == room.floor_to_ceiling_height - target_floor_to_ceiling
             plenum_z == IF floor_plenum THEN room.floor_height
                         ELSE room.floor_height + target_floor_to_ceiling
             new_room == NewRoom(PlenumId(room.identifier, pln_typ), room.boundary,
                                 room.holes, plenum_z, plenum_ftc, new_bcs,
                                 room.window_parameters, room.shading_parameters)
             moved == IF floor_plenum
                      THEN [room EXCEPT !.floor_height = @ + plenum_ftc]
                      ELSE room
             set == SetFloorToCeilingHeight(moved, target_floor_to_ceiling)
         IN  [room |-> set.room,
              new_room |-> IF set.raised = "" THEN new_room ELSE NoRoom,
              raised |-> set.raised]

\* a key that is absent from a dictionary, or the None of a list entry
NoneDict == [type |-> "None"]

\* BoundaryCondition.to_dict() and the from_dict of the class named by 'type'
BcToDict(bc) ==
    [type |-> bc.type,
     boundary_condition_objects |-> IF IsSurface(bc) THEN <<bc.face, bc.room>> ELSE <<>>]

BcFromDict(bc_dict) ==
    IF bc_dict.type = "Surface"
    THEN Surface(bc_dict.boundary_condition_objects[1], bc_dict.boundary_condition_objects[2])
    ELSE IF bc_dict.type = "Ground" THEN Ground ELSE Outdoors

\* window parameter to_dict() and the from_dict of the class named by 'type'
WinToDict(glz) ==
    IF glz = NoWin THEN NoneDict
    ELSE [type |-> glz.kind, origin |-> glz.x, width |-> glz.w, height |-> glz.h]

WinFromDict(glz_dict) ==
    IF glz_dict = NoneDict THEN NoWin
    ELSE [kind |-> glz_dict.type, x |-> glz_dict.origin, w |-> glz_dict.width,
          h |-> glz_dict.height]

\* shading parameter to_dict() and the from_dict of the class named by 'type'
ShdToDict(shd) == IF shd = NoShd THEN NoneDict ELSE [type |-> shd]

ShdFromDict(shd_dict) == IF shd_dict = NoneDict THEN NoShd ELSE shd_dict.type

ToDictWithoutAirBoundaries(room) ==
    [identifier |-> room.identifier,
     floor_boundary |-> room.boundary,
     floor_holes |-> room.holes,
     floor_height |-> room.floor_height,
     floor_to_ceiling_height |-> room.floor_to_ceiling_height,
     has_floor |-> room.has_floor,
     has_ceiling |-> room.has_ceiling,
     ceiling_plenum_depth |-> room.ceiling_plenum_depth,
     floor_plenum_depth |-> room.floor_plenum_depth,
     boundary_conditions |->
        [i \in 1..Len(room.boundary_conditions) |-> BcToDict(room.boundary_conditions[i])],
     window_parameters |->
        IF \A i \in 1..Len(room.window_parameters) : room.window_parameters[i] = NoWin
        THEN NoneList
        ELSE [i \in 1..Len(room.window_parameters) |-> WinToDict(room.window_parameters[i])],
     shading_parameters |->
        IF \A i \in 1..Len(room.shading_parameters) : room.shading_parameters[i] = NoShd
        THEN NoneList
        ELSE [i \in 1..Len(room.shading_parameters) |-> ShdToDict(room.shading_parameters[i])],
     air_boundaries |-> NoneList]

\* Room2D.to_dict(): the keys that from_dict reads.  A key that is written only
\* under a condition holds the value from_dict assumes when it is absent.
ToDict(room) ==
    [identifier |-> room.identifier,
     floor_boundary |-> room.boundary,
     floor_holes |-> room.holes,
     floor_height |-> room.floor_height,
     floor_to_ceiling_height |-> room.floor_to_ceiling_height,
     has_floor |-> room.has_floor,
     has_ceiling |-> room.has_ceiling,
     ceiling_plenum_depth |-> room.ceiling_plenum_depth,
     floor_plenum_depth |-> room.floor_plenum_depth,
     boundary_conditions |->
        [i \in 1..Len(room.boundary_conditions) |-> BcToDict(room.boundary_conditions[i])],
     window_parameters |->
        IF \A i \in 1..Len(room.window_parameters) : room.window_parameters[i] = NoWin
        THEN NoneList
        ELSE [i \in 1..Len(room.window_parameters) |-> WinToDict(room.window_parameters[i])],
     shading_parameters |->
        IF \A i \in 1..Len(room.shading_parameters) : room.shading_parameters[i] = NoShd
        THEN NoneList
        ELSE [i \in 1..Len(room.shading_parameters) |-> ShdToDict(room.shading_parameters[i])],
     air_boundaries |->
        IF room.air_boundaries = AbNone
           \/ \A i \in 1..Len(room.air_boundaries) : ~room.air_boundaries[i]
        THEN NoneList
        ELSE room.air_boundaries]

\* Room2D.from_dict(data): the lists are re-assembled, the constructor is called,
\* then has_floor, has_ceiling, the two plenum depths and the air boundaries go
\* through their setters.  Nothing is returned when one raises.
FromDict(data) ==
    LET n == Len(data.floor_boundary) + Len(Flatten(data.floor_holes))
        b_conditions == [i \in 1..Len(data.boundary_conditions) |->
                           BcFromDict(data.boundary_conditions[i])]
        glz_pars == [i \in 1..Len(data.window_parameters) |->
                       WinFromDict(data.window_parameters[i])]
        shd_pars == [i \in 1..Len(data.shading_parameters) |->
                       ShdFromDict(data.shading_parameters[i])]
    IN  IF ~FloatPositive(data.floor_to_ceiling_height) \/ data.floor_to_ceiling_height = 0
        THEN Raise(NoRoom, "AssertionError")
        ELSE IF ~CanConstruct(data.floor_boundary, data.floor_holes, b_conditions,
                              glz_pars, shd_pars)
        THEN Raise(NoRoom, "AssertionError")
        ELSE LET room == NewRoom(data.identifier, data.floor_boundary, data.floor_holes,
                                 data.floor_height, data.floor_to_ceiling_height,
                                 b_conditions, glz_pars, shd_pars)
                 flagged == [room EXCEPT !.has_floor = data.has_floor,
                                         !.has_ceiling = data.has_ceiling]
                 ceil == SetCeilingPlenumDepth(flagged, data.ceiling_plenum_depth)
                 flr == SetFloorPlenumDepth(ceil.room, data.floor_plenum_depth)
                 air == IF data.air_boundaries = NoneList THEN Ok(flr.room)
                        ELSE SetAirBoundaries(flr.room, data.air_boundaries)
             IN  IF ceil.raised # "" THEN Raise(NoRoom, ceil.raised)
                 ELSE IF flr.raised # "" THEN Raise(NoRoom, flr.raised)
                 ELSE IF air.raised # "" THEN Raise(NoRoom, air.raised)
                 ELSE Ok(air.room)

CheckPlenumDepthsMarginAbove(room, tolerance) ==
    LET ftc == room.floor_to_ceiling_height
        cpd == room.ceiling_plenum_depth
        fpd == room.floor_plenum_depth
        msgs == (IF cpd + fpd >= ftc + tolerance THEN <<"exceed">> ELSE <<>>)
                \o (IF ~room.has_ceiling /\ cpd # 0 THEN <<"no_ceiling">> ELSE <<>>)
                \o (IF ~room.has_floor /\ fpd # 0 THEN <<"no_floor">> ELSE <<>>)
    IN  [msgs |-> msgs, raised |-> IF msgs = <<>> THEN "" ELSE "ValueError"]

\* Room2D.check_plenum_depths(tolerance, raise_exception=True): the messages it
\* collects and the ValueError it raises when there is one
CheckPlenumDepths(room, tolerance) ==
    LET ftc == room.floor_to_ceiling_height
        cpd == room.ceiling_plenum_depth
        fpd == room.floor_plenum_depth
        msgs == (IF cpd + fpd >= ftc - tolerance THEN <<"exceed">> ELSE <<>>)
                \o (IF ~room.has_ceiling /\ cpd # 0 THEN <<"no_ceiling">> ELSE <<>>)
                \o (IF ~room.has_floor /\ fpd # 0 THEN <<"no_floor">> ELSE <<>>)
    IN  [msgs |-> msgs, raised |-> IF msgs = <<>> THEN "" ELSE "ValueError"]

(***************************************************************************)
(* SpecPlenum: one room "R1", created with or without boundary conditions  *)
(* at a floor height below, at or above the ground plane, then the height  *)
(* and plenum operations in any order.                                     *)
(***************************************************************************)
FloorHeights == {-6, -3, -1, 0, 2}

CeilingDistances == {1, 3, 6}

DepthValues == {-1, 0, 1, 3}

HeightValues == {-1, 0, 2, 3}

Factors == {2, 3}

Targets == {-1, 0, 1, 4}

PlenumLayouts == {lay \in Layouts : lay.holes = <<>>}

DictCases ==
    {d \in [identifier : {"R1"}, floor_boundary : {Square}, floor_holes : {<<>>},
            floor_height : {-3, -1}, floor_to_ceiling_height : {0, 3, 6},
            boundary_conditions :
               {[i \in 1..Len(bc) |-> BcToDict(bc[i])] : bc \in InitBCs(4)},
            window_parameters : {NoneList}, shading_parameters : {NoneList},
            air_boundaries : {NoneList},
            has_floor : BOOLEAN, has_ceiling : BOOLEAN,
            ceiling_plenum_depth : {-1, 0, 2}, floor_plenum_depth : {0, 2}] :
        d.has_floor \/ d.has_ceiling}

\* what an operation did: its name, whether boundary conditions were given,
\* the messages of a check, the room it returned and the exception it raised
PlenumOp(op, explicit_bcs, msgs, new_room, raised) ==
    [op |-> op, explicit_bcs |-> explicit_bcs, msgs |-> msgs,
     new_room |-> new_room, raised |-> raised]

InitPlenum ==
    /\ \E lay \in PlenumLayouts, fh \in FloorHeights, ftc \in CeilingDistances :
         \E bc \in InitBCs(Len(lay.boundary)) :
            /\ rooms = [id \in {"R1"} |->
                          NewRoom(id, lay.boundary, lay.holes, fh, ftc, bc,
                                  NoneList, NoneList)]
            /\ lastOp = PlenumOp("__init__", bc # NoneList, <<>>, NoRoom, "")
    /\ ops = 0

PlenumApply(op, room, msgs, new_room, raised) ==
    /\ ops < MaxOps
    /\ rooms' = [rooms EXCEPT !["R1"] = room]
    /\ lastOp' = PlenumOp(op, FALSE, msgs, new_room, raised)
    /\ ops' = ops + 1

PlenumSetFloorToCeilingHeight ==
    \E v \in HeightValues :
       LET res == SetFloorToCeilingHeight(Room, v)
       IN  PlenumApply("floor_to_ceiling_height", res.room, <<>>, NoRoom, res.raised)

PlenumSetCeilingPlenumDepth ==
    \E v \in DepthValues :
       LET res == SetCeilingPlenumDepth(Room, v)
       IN  PlenumApply("ceiling_plenum_depth", res.room, <<>>, NoRoom, res.raised)

PlenumSetFloorPlenumDepth ==
    \E v \in DepthValues :
       LET res == SetFloorPlenumDepth(Room, v)
       IN  PlenumApply("floor_plenum_depth", res.room, <<>>, NoRoom, res.raised)

PlenumScale ==
    \E factor \in Factors :
       PlenumApply("scale", Scale(Room, factor), <<>>, NoRoom, "")

PlenumSeparatePlenum ==
    \E target \in Targets, floor_plenum \in BOOLEAN :
       LET res == SeparatePlenum(Room, target, floor_plenum, Tol)
       IN  PlenumApply("separate_plenum", res.room, <<>>, res.new_room, res.raised)

PlenumFromDict ==
    \E data \in DictCases :
       LET res == FromDict(data)
       IN  /\ ops < MaxOps
           /\ rooms' = IF res.raised = "" THEN [rooms EXCEPT !["R1"] = res.room]
                       ELSE rooms
           /\ lastOp' = PlenumOp("from_dict", data.boundary_conditions # NoneList,
                                 <<>>, NoRoom, res.raised)
           /\ ops' = ops + 1

PlenumCheckPlenumDepths ==
    LET res == CheckPlenumDepths(Room, Tol)
    IN  PlenumApply("check_plenum_depths", Room, res.msgs, NoRoom, res.raised)

NextPlenum ==
    \/ PlenumSetFloorToCeilingHeight
    \/ PlenumSetCeilingPlenumDepth
    \/ PlenumSetFloorPlenumDepth
    \/ PlenumScale
    \/ PlenumSeparatePlenum
    \/ PlenumFromDict
    \/ PlenumCheckPlenumDepths

SpecPlenum == InitPlenum /\ [][NextPlenum]_vars

(***************************************************************************)
(* Default boundary conditions and the plenum depths                       *)
(***************************************************************************)
\* the room was just created and no boundary conditions were given
CreatedByDefault ==
    /\ lastOp.op \in {"__init__", "from_dict"}
    /\ lastOp.raised = ""
    /\ ~lastOp.explicit_bcs

AllSegments(bc) ==
    \A i \in 1..Len(Room.boundary_conditions) : Room.boundary_conditions[i] = bc

\* C19 as stated: a room created without boundary conditions has Ground on
\* every segment if its floor is below height 0 and Outdoors on every segment
\* otherwise.
C19_GroundIffFloorBelowGrade ==
    CreatedByDefault =>
       IF Room.floor_height < 0 THEN AllSegments(Ground) ELSE AllSegments(Outdoors)

\* C19, amended: a room created without boundary conditions has Ground on every
\* segment if its ceiling (floor height plus floor-to-ceiling height) is at or
\* below height 0 and Outdoors on every segment otherwise.
C19_GroundIffCeilingAtOrBelowGrade ==
    CreatedByDefault =>
       IF Room.floor_height + Room.floor_to_ceiling_height <= 0
       THEN AllSegments(Ground)
       ELSE AllSegments(Outdoors)

\* a room read from a dictionary without boundary conditions whose ceiling is
\* exactly at the ground plane and that got Ground
C19_Witness ==
    /\ CreatedByDefault
    /\ lastOp.op = "from_dict"
    /\ Room.floor_height < 0
    /\ Room.floor_height + Room.floor_to_ceiling_height = 0
    /\ AllSegments(Ground)

PlenumSum == Room.ceiling_plenum_depth + Room.floor_plenum_depth

\* C20 as stated: in every state of the room, after any of the setters, scale,
\* separate_plenum and from_dict, the two plenum depths together are strictly
\* less than the floor-to-ceiling height.
C20_PlenumsBelowHeight == PlenumSum < Room.floor_to_ceiling_height

\* C20, amended: in every state in which check_plenum_depths (with a tolerance
\* that is not negative) reports nothing, the two plenum depths together are
\* strictly less than the floor-to-ceiling height; the operations themselves
\* do not keep it so.
C20_CheckedPlenumsBelowHeight ==
    (lastOp.op = "check_plenum_depths" /\ lastOp.raised = "")
       => PlenumSum < Room.floor_to_ceiling_height

\* the check passed on a room that has both plenums
C20_Witness ==
    /\ lastOp.op = "check_plenum_depths"
    /\ lastOp.raised = ""
    /\ Room.ceiling_plenum_depth > 0
    /\ Room.floor_plenum_depth > 0

\* Room2D.from_polygon(identifier, polygon, floor_height, floor_to_ceiling_height,
\* boundary_conditions, window_parameters, shading_parameters): a clockwise
\* polygon is reversed and the three lists with it; the Face3D is built without
\* the right-hand rule, so the constructor does not flip anything
FromPolygon(identifier, polygon, floor_height, ftc, bcs, wps, shds) ==
    LET clockwise == SignedArea2(polygon) < 0
        rev == Reverse(polygon)
        segs == RingSegments(rev)
        rev_wps == Reverse(wps)
        new_win_pars == [i \in 1..Min2(Len(segs), Len(wps)) |->
                           FlipIfAsymmetric(rev_wps[i], SegLength(segs[i]))]
        poly == IF clockwise THEN rev ELSE polygon
        bc1 == IF clockwise THEN Reverse(bcs) ELSE bcs
        wp1 == IF clockwise /\ wps # NoneList THEN new_win_pars ELSE wps
        sh1 == IF clockwise THEN Reverse(shds) ELSE shds
    IN  IF CanConstruct(poly, <<>>, bc1, wp1, sh1)
        THEN Ok(NewRoom(identifier, poly, <<>>, floor_height, ftc, bc1, wp1, sh1))
        ELSE Raise(NoRoom, "AssertionError")

(***************************************************************************)
(* SpecDict: the room of SpecRoom, created also with a shading parameter,  *)
(* edited by the operations of SpecRoom, written to a dictionary and read   *)
(* back, or created again from a polygon.                                  *)
(***************************************************************************)
\* a shading parameter (dragonfly.shadingparameter), an opaque value
Overhang == "Overhang"

InitSHDs(n) == {NoneList, OneAt(n, 1, Overhang, NoShd)}

InitDict ==
    /\ \E lay \in Layouts :
         LET n == Len(lay.boundary) + Len(Flatten(lay.holes))
         IN  \E bc \in InitBCs(n), wp \in InitWPs(n), shd \in InitSHDs(n) :
               /\ CanConstruct(lay.boundary, lay.holes, bc, wp, shd)
               /\ rooms = [id \in {"R1"} |->
                             NewRoom(id, lay.boundary, lay.holes, 0, 3, bc, wp, shd)]
    /\ lastOp = RoomOp("__init__", -1, "")
    /\ ops = 0

\* room = Room2D.from_dict(room.to_dict()); the room that was written is kept
\* in lastOp.before
DictRoundTrip ==
    LET res == FromDict(ToDict(Room))
    IN  /\ ops < MaxOps
        /\ ops' = ops + 1
        /\ rooms' = IF res.raised = "" THEN [rooms EXCEPT !["R1"] = res.room] ELSE rooms
        /\ lastOp' = [op |-> "from_dict", seg |-> -1, raised |-> res.raised,
                      before |-> Room]

\* the polygons handed to from_polygon, counter-clockwise and clockwise
Polygons == {Square, Reverse(Square), Reverse(SquareSplit)}

PolygonWPs(n) == InitWPs(n) \cup {OneAt(n, 3, RectangularWindows(1, 2, 1), NoWin)}

\* room = Room2D.from_polygon(...); the arguments are kept in lastOp
DictFromPolygon ==
    \E polygon \in Polygons :
       \E bcs \in InitBCs(Len(polygon)), wps \in PolygonWPs(Len(polygon)),
          shds \in InitSHDs(Len(polygon)) :
          LET res == FromPolygon("R1", polygon, 0, 3, bcs, wps, shds)
          IN  /\ ops < MaxOps
              /\ ops' = ops + 1
              /\ rooms' = IF res.raised = "" THEN [rooms EXCEPT !["R1"] = res.room]
                          ELSE rooms
              /\ lastOp' = [op |-> "from_polygon", seg |-> -1, raised |-> res.raised,
                            polygon |-> polygon, boundary_conditions |-> bcs,
                            window_parameters |-> wps, shading_parameters |-> shds]

NextDict ==
    \/ NextRoom
    \/ DictRoundTrip
    \/ DictFromPolygon

SpecDict == InitDict /\ [][NextDict]_vars

\* a room that satisfies the three invariants of the per-segment arrays
ValidRoom(room) == LengthsLegal(room) /\ WindowsLegal(room) /\ AirBoundariesLegal(room)

\* C21: for a valid room, from_dict(to_dict(room)) does not raise and yields a
\* room with the same boundary and holes, vertex for vertex, and the same
\* boundary conditions, window parameters, shading parameters and air boundaries.
C21_DictRoundTrip ==
    (lastOp.op = "from_dict" /\ ValidRoom(lastOp.before)) =>
        /\ lastOp.raised = ""
        /\ Room.boundary = lastOp.before.boundary
        /\ Room.holes = lastOp.before.holes
        /\ Room.boundary_conditions = lastOp.before.boundary_conditions
        /\ Room.window_parameters = lastOp.before.window_parameters
        /\ Room.shading_parameters = lastOp.before.shading_parameters
        /\ AirBoundaries(Room) = AirBoundaries(lastOp.before)

\* a room with a hole, a window, a shade and an air boundary was written and read
C21_Witness ==
    /\ lastOp.op = "from_dict"
    /\ ValidRoom(lastOp.before)
    /\ lastOp.before.holes # <<>>
    /\ \E i \in 1..Len(Room.window_parameters) : Room.window_parameters[i] # NoWin
    /\ \E i \in 1..Len(Room.shading_parameters) : Room.shading_parameters[i] = Overhang
    /\ \E i \in 1..Len(AirBoundaries(Room)) : AirBoundaries(Room)[i]

(***************************************************************************)
(* Wall properties and the segments that carry them                        *)
(***************************************************************************)
\* the mirror plane of RoomReflect
MirrorPlane == [n |-> <<1, 0>>, o |-> <<0, 0>>]

\* segment seg_b joins the mirror images of the end points of seg_a
MirrorImage(seg_a, seg_b) ==
    LET m1 == ReflectPoint(seg_a[1], MirrorPlane)
        m2 == ReflectPoint(seg_a[2], MirrorPlane)
    IN  (seg_b[1] = m1 /\ seg_b[2] = m2) \/ (seg_b[1] = m2 /\ seg_b[2] = m1)

\* C22: when reflect reverses the ring direction, every segment of the stored
\* floor polygon, on the boundary or on a hole, carries the boundary condition
\* that was assigned to the wall it is the mirror image of.
C22_ReflectKeepsWallConditions ==
    [][(lastOp'.op = "reflect" /\ lastOp'.raised = "" /\ ValidRoom(Room)) =>
          \A i \in 1..Len(FloorSegments(Room)), j \in 1..Len(FloorSegments(Room')) :
             MirrorImage(FloorSegments(Room)[i], FloorSegments(Room')[j]) =>
                Room'.boundary_conditions[j] = Room.boundary_conditions[i]]_vars

\* the same wall: the same two end points, in either direction
SameWall(seg_a, seg_b) ==
    (seg_a[1] = seg_b[1] /\ seg_a[2] = seg_b[2]) \/ (seg_a[1] = seg_b[2] /\ seg_a[2] = seg_b[1])

\* C30: from_polygon with a clockwise polygon and the three lists yields a room
\* in which every wall segment, identified by its two end points, carries the
\* boundary condition, the window parameter (flipped along the wall when it is
\* asymmetric) and the shading parameter the lists assigned to that segment.
C30_FromPolygonKeepsWallProperties ==
    (lastOp.op = "from_polygon" /\ lastOp.raised = "" /\ SignedArea2(lastOp.polygon) < 0) =>
       \A i \in 1..Len(lastOp.polygon), j \in 1..Len(FloorSegments(Room)) :
          SameWall(RingSegments(lastOp.polygon)[i], FloorSegments(Room)[j]) =>
             /\ lastOp.boundary_conditions # NoneList =>
                   Room.boundary_conditions[j] = lastOp.boundary_conditions[i]
             /\ lastOp.window_parameters # NoneList =>
                   Room.window_parameters[j] =
                      FlipIfAsymmetric(lastOp.window_parameters[i],
                                       SegLength(FloorSegments(Room)[j]))
             /\ lastOp.shading_parameters # NoneList =>
                   Room.shading_parameters[j] = lastOp.shading_parameters[i]

\* C23: remove_duplicate_vertices preserves the properties of the room: every
\* segment that survives, on the boundary or on a hole, keeps its boundary
\* condition, window parameter, shading parameter and air-boundary flag.
C23_DeduplicationKeepsProperties ==
    [][(lastOp'.op = "remove_duplicate_vertices" /\ lastOp'.raised = "" /\ ValidRoom(Room)) =>
          \A i \in 1..Len(FloorSegments(Room)), j \in 1..Len(FloorSegments(Room')) :
             FloorSegments(Room)[i] = FloorSegments(Room')[j] =>
                /\ Room'.boundary_conditions[j] = Room.boundary_conditions[i]
                /\ Room'.window_parameters[j] = Room.window_parameters[i]
                /\ Room'.shading_parameters[j] = Room.shading_parameters[i]
                /\ AirBoundaries(Room')[j] = AirBoundaries(Room)[i]]_vars

\* segments seg_p and seg_a are the two parts of seg_o, split at a point
\* strictly inside it
SplitOf(seg_o, seg_p, seg_a) ==
    /\ seg_p[1] = seg_o[1]
    /\ seg_a[2] = seg_o[2]
    /\ seg_p[2] = seg_a[1]
    /\ seg_p[2] # seg_o[1]
    /\ seg_p[2] # seg_o[2]
    /\ DistanceToPointLeq(seg_o, seg_p[2], 0)

\* C24: in update_floor_geometry, when an added segment is colinear with and
\* within an original segment, both resulting segments carry the boundary
\* condition and the shading parameter of that original segment and its window
\* parameter is split between them.
C24_SplitSegmentKeepsProperties ==
    [][(lastOp'.op = "update_floor_geometry" /\ lastOp'.raised = "" /\ ValidRoom(Room)) =>
          \A i \in 1..Len(FloorSegments(Room)), j \in 1..(Len(FloorSegments(Room')) - 1) :
             SplitOf(FloorSegments(Room)[i], FloorSegments(Room')[j],
                     FloorSegments(Room')[j + 1]) =>
                /\ Room'.boundary_conditions[j] = Room.boundary_conditions[i]
                /\ Room'.boundary_conditions[j + 1] = Room.boundary_conditions[i]
                /\ Room'.shading_parameters[j] = Room.shading_parameters[i]
                /\ Room'.shading_parameters[j + 1] = Room.shading_parameters[i]
                /\ <<Room'.window_parameters[j], Room'.window_parameters[j + 1]>> =
                      IF Room.window_parameters[i] = NoWin THEN <<NoWin, NoWin>>
                      ELSE SplitWin(Room.window_parameters[i], FloorSegments(Room')[j],
                                    FloorSegments(Room')[j + 1])]_vars

(***************************************************************************)
(* What a failed set_adjacency leaves behind                               *)
(***************************************************************************)
\* the segment of the room whose identifier is id keeps its boundary condition
\* and window parameter over the step
SegmentUntouched(id, seg_index) ==
    /\ rooms'[id].boundary_conditions[seg_index + 1]
          = rooms[id].boundary_conditions[seg_index + 1]
    /\ rooms'[id].window_parameters[seg_index + 1]
          = rooms[id].window_parameters[seg_index + 1]

\* C25: when set_adjacency, called directly or by solve_adjacency without
\* conflict resolution, raises because the window parameters of the two
\* segments do not match, both segments keep the boundary condition and the
\* window parameter they had: after a failed solve_adjacency no segment has
\* become a Surface towards a segment with other window parameters.
C25_FailedAdjacencyChangesNothing ==
    [][/\ (lastOp'.op = "set_adjacency" /\ ~lastOp'.rwc
             /\ lastOp'.raised = "AssertionError")
            => /\ SegmentUntouched(lastOp'.id1, lastOp'.j)
               /\ SegmentUntouched(lastOp'.id2, lastOp'.k)
       /\ (lastOp'.op = "solve_adjacency" /\ ~lastOp'.rwc
             /\ lastOp'.raised = "AssertionError")
            => \A id \in RoomIds : \A i \in 1..Len(rooms'[id].boundary_conditions) :
                  LET bc == rooms'[id].boundary_conditions[i]
                  IN  (IsSurface(bc) /\ bc.room \in RoomIds
                         /\ bc # rooms[id].boundary_conditions[i])
                        => rooms'[bc.room].window_parameters[bc.face[2]]
                              = rooms'[id].window_parameters[i]]_vars

(***************************************************************************)
(* The faces of the Honeybee room                                          *)
(***************************************************************************)
\* face t (from 1) of the Honeybee room is the wall of segment k: it is named
\* '<room id>..Face<k+1>' and was given the properties of segment k alone
WallOfSegment(t, k) ==
    /\ lastOp.res.hb_faces[t].identifier = FaceId(Room.identifier, k)
    /\ lastOp.res.hb_faces[t].given = {k}

\* C26: when to_honeybee falls back to the plain extrusion after a roof
\* attempt that failed or was not solid, no segment is treated as excluded:
\* for every segment k, face k+1 of the room is named '<room id>..Face<k+1>'
\* and receives the properties of segment k.
C26_FallbackExcludesNoSegment ==
    (Built /\ lastOp.res.raised = "" /\ ~lastOp.res.has_roof) =>
        \A k \in 0..(Len(Room.boundary_conditions) - 1) : WallOfSegment(k + 2, k)

\* C27: in to_honeybee with a roof volume and a non-empty set of excluded
\* walls, every wall face that remains is named '<room id>..Face<k+1>' for the
\* segment k it was generated from and receives the boundary condition of
\* segment k, for every excluded set.
C27_RemainingWallsKeepTheirNames ==
    (Built /\ lastOp.res.raised = "" /\ lastOp.res.has_roof
       /\ ~lastOp.res.ex_none /\ lastOp.res.ex_wall_i # {}) =>
        \A t \in 1..Len(lastOp.res.hb_faces) :
           lastOp.res.hb_faces[t].kind = "wall" =>
              WallOfSegment(t, lastOp.res.hb_faces[t].seg)

FindAdjacentRooms(room) ==
    LET bcs == room.boundary_conditions
        adj_rooms[i \in 0..Len(bcs)] ==
            IF i = 0 THEN <<>>
            ELSE IF IsSurface(bcs[i]) THEN Append(adj_rooms[i - 1], bcs[i].room)
            ELSE adj_rooms[i - 1]
    IN  adj_rooms[Len(bcs)]

\* Room2D._find_adjacent_air_boundary_rooms(room)
FindAdjacentAirBoundaryRooms(room) ==
    LET bcs == room.boundary_conditions
        abs == AirBoundaries(room)
        adj_rooms[i \in 0..ZipLen(bcs, abs)] ==
            IF i = 0 THEN <<>>
            ELSE IF abs[i] /\ IsSurface(bcs[i]) THEN Append(adj_rooms[i - 1], bcs[i].room)
            ELSE adj_rooms[i - 1]
    IN  adj_rooms[ZipLen(bcs, abs)]

AdjFindingFunction(fn, room) ==
    IF fn = "_find_adjacent_rooms" THEN FindAdjacentRooms(room)
    ELSE FindAdjacentAirBoundaryRooms(room)

SeqElements(s) == {s[n] : n \in 1..Len(s)}

\* Room2D._adjacency_grouping, the while loop that grows the local network
\* of first_id: the rooms of adj_ids that are in the input join the network,
\* and what they are adjacent to becomes the next adj_ids
RECURSIVE LocalNetwork(_, _, _, _, _, _, _)
LocalNetwork(rs, room_2ds, fn, first_id, adj_ids, local_network, local_ids) ==
    IF Len(adj_ids) = 0
    THEN [local_network |-> local_network, local_ids |-> local_ids]
    ELSE LET adj_objs == SelectSeq(adj_ids, LAMBDA rm_id : InList(room_2ds, rm_id))
             found[k \in 0..Len(adj_objs)] ==
                 IF k = 0 THEN [local_ids |-> local_ids, adj_ids |-> <<>>]
                 ELSE LET new_ids ==
                              SelectSeq(AdjFindingFunction(fn, rs[adj_objs[k]]),
                                        LAMBDA rid : rid \notin found[k - 1].local_ids
                                                       /\ rid # first_id)
                      IN  [local_ids |-> found[k - 1].local_ids \cup SeqElements(new_ids),
                           adj_ids |-> found[k - 1].adj_ids \o new_ids]
         IN  LocalNetwork(rs, room_2ds, fn, first_id, found[Len(adj_objs)].adj_ids,
                          local_network \o adj_objs, found[Len(adj_objs)].local_ids)

\* Room2D._adjacency_grouping, the loop over all_rooms: position is the index
\* of the list iterator, which goes on counting while rooms are popped
RECURSIVE GroupFrom(_, _, _, _, _, _)
GroupFrom(rs, room_2ds, fn, all_rooms, position, adj_network) ==
    IF position >= Len(all_rooms) THEN adj_network
    ELSE LET room == all_rooms[position + 1]
             adj_ids == AdjFindingFunction(fn, rs[room])
             net == LocalNetwork(rs, room_2ds, fn, room, adj_ids, <<room>>,
                                 SeqElements(adj_ids))
         IN  IF Len(adj_ids) = 0
             THEN GroupFrom(rs, room_2ds, fn, all_rooms, position + 1,
                            Append(adj_network, <<room>>))
             ELSE GroupFrom(rs, room_2ds, fn,
                            SelectSeq(all_rooms, LAMBDA id : id \notin net.local_ids),
                            position + 1, Append(adj_network, net.local_network))

\* Room2D._adjacency_grouping(rooms, adj_finding_function)
AdjacencyGrouping(rs, room_2ds, fn) == GroupFrom(rs, room_2ds, fn, room_2ds, 0, <<>>)

\* Room2D.group_by_adjacency(rooms)
GroupByAdjacency(rs, room_2ds) == AdjacencyGrouping(rs, room_2ds, "_find_adjacent_rooms")

\* Room2D.group_by_air_boundary_adjacency(rooms)
GroupByAirBoundaryAdjacency(rs, room_2ds) ==
    AdjacencyGrouping(rs, room_2ds, "_find_adjacent_air_boundary_rooms")

(***************************************************************************)
(* Three rooms of one story, as drawn or as loaded with their adjacencies  *)
(* solved, that are paired, given air boundaries and grouped.              *)
(*   ell:  R2 is an L that wraps the right and the top wall of the square  *)
(*         R1, so R1 and R2 share two walls; R3 stands against R2.         *)
(*   row:  R1, R2 and R3 stand in a row.                                   *)
(***************************************************************************)
GroupBoundary(scene, id) ==
    IF scene = "ell"
    THEN CASE id = "R1" -> <<<<0, 0>>, <<4, 0>>, <<4, 4>>, <<0, 4>>>>
           [] id = "R2" -> <<<<4, 0>>, <<8, 0>>, <<8, 8>>, <<0, 8>>, <<0, 4>>, <<4, 4>>>>
           [] id = "R3" -> <<<<8, 0>>, <<12, 0>>, <<12, 8>>, <<8, 8>>>>
    ELSE CASE id = "R1" -> <<<<0, 0>>, <<4, 0>>, <<4, 4>>, <<0, 4>>>>
           [] id = "R2" -> <<<<4, 0>>, <<8, 0>>, <<8, 4>>, <<4, 4>>>>
           [] id = "R3" -> <<<<8, 0>>, <<12, 0>>, <<12, 4>>, <<8, 4>>>>

\* the boundary conditions of a story whose adjacencies were solved
SolvedBCs(scene, id) ==
    LET Out == Outdoors
        S(room, seg) == Surface(FaceId(room, seg), room)
    IN  IF scene = "ell"
        THEN CASE id = "R1" -> <<Out, S("R2", 5), S("R2", 4), Out>>
               [] id = "R2" -> <<Out, S("R3", 3), Out, Out, S("R1", 2), S("R1", 1)>>
               [] id = "R3" -> <<Out, Out, Out, S("R2", 1)>>
        ELSE CASE id = "R1" -> <<Out, S("R2", 3), Out, Out>>
               [] id = "R2" -> <<Out, S("R3", 3), Out, S("R1", 1)>>
               [] id = "R3" -> <<Out, Out, Out, S("R2", 1)>>

GroupOp(op, room_2ds, id, groups, raised) ==
    [op |-> op, room_2ds |-> room_2ds, rwc |-> TRUE, id1 |-> id, j |-> -1,
     id2 |-> "", k |-> -1, wps |-> NoWps, adj_info |-> <<>>, raised |-> raised,
     groups |-> groups]

InitGroup ==
    /\ \E scene \in {"ell", "row"}, solved \in BOOLEAN,
          w1 \in {NoWin, SimpleWindowRatio(20)} :
         rooms = [id \in RoomIds |->
                    LET b == GroupBoundary(scene, id)
                    IN  NewRoom(id, b, <<>>, 10, 3,
                                IF solved THEN SolvedBCs(scene, id) ELSE NoneList,
                                IF id = "R1" THEN OneAt(Len(b), 0, w1, NoWin)
                                ELSE NoneList,
                                NoneList)]
    /\ lastOp = GroupOp("__init__", <<>>, "", <<>>, "")
    /\ ops = 0

\* the air boundaries a room can be given: none, every wall, or every wall
\* that has a Surface boundary condition
AirBoundaryValues(room) ==
    {NoneList,
     [i \in 1..room.segment_count |-> TRUE],
     [i \in 1..room.segment_count |-> IsSurface(room.boundary_conditions[i])]}

GroupSetAirBoundaries ==
    \E id \in RoomIds :
      \E value \in AirBoundaryValues(rooms[id]) :
        LET res == SetAirBoundaries(rooms[id], value)
        IN  /\ ops < MaxOps
            /\ ops' = ops + 1
            /\ rooms' = [rooms EXCEPT ![id] = res.room]
            /\ lastOp' = GroupOp("air_boundaries", <<>>, id, <<>>, res.raised)

GroupGroupByAdjacency ==
    \E room_2ds \in RoomLists :
        /\ ops < MaxOps
        /\ ops' = ops + 1
        /\ rooms' = rooms
        /\ lastOp' = GroupOp("group_by_adjacency", room_2ds, "",
                             GroupByAdjacency(rooms, room_2ds), "")

\* the air_boundaries getter stores the list it generates in every room the
\* grouping looks at
GroupGroupByAirBoundaryAdjacency ==
    \E room_2ds \in RoomLists :
        LET groups == GroupByAirBoundaryAdjacency(rooms, room_2ds)
            seen == UNION {SeqElements(groups[g]) : g \in 1..Len(groups)}
        IN  /\ ops < MaxOps
            /\ ops' = ops + 1
            /\ rooms' = [id \in RoomIds |->
                           IF id \in seen THEN WithAirBoundaries(rooms[id]) ELSE rooms[id]]
            /\ lastOp' = GroupOp("group_by_air_boundary_adjacency", room_2ds, "",
                                 groups, "")

NextGroup ==
    \/ AdjSolveAdjacency
    \/ AdjSetAdjacency
    \/ GroupSetAirBoundaries
    \/ GroupGroupByAdjacency
    \/ GroupGroupByAirBoundaryAdjacency

SpecGroup == InitGroup /\ [][NextGroup]_vars

\* how often a room appears in the groups
Appearances(groups, id) ==
    Cardinality({gk \in UNION {{<<g, k>> : k \in 1..Len(groups[g])} : g \in 1..Len(groups)} :
                    groups[gk[1]][gk[2]] = id})

\* C29: group_by_adjacency and group_by_air_boundary_adjacency return a
\* partition of the input rooms: every input room appears in exactly one
\* group and exactly once in it, also when two rooms are adjacent through
\* more than one pair of segments.
C29_GroupsPartitionTheRooms ==
    lastOp.op \in {"group_by_adjacency", "group_by_air_boundary_adjacency"} =>
        \A id \in RoomIds :
            Appearances(lastOp.groups, id) = (IF InList(lastOp.room_2ds, id) THEN 1 ELSE 0)

====
